---- MODULE Spec2Model ----
(***************************************************************************)
(* Region model of the tile map (src/src/map/mapModel.ts): the partition   *)
(* builder createWorldMap, the override resolution and the region query    *)
(* getRegionInfo, as a state machine that builds one map from bounded      *)
(* inputs and then queries it.                                             *)
(***************************************************************************)
EXTENDS Integers, Sequences, FiniteSets, TLC

VARIABLES
    width,      \* createWorldMap argument
    height,     \* createWorldMap argument
    overrides,  \* createWorldMap / getRegionInfo argument (RegionOverrides)
    mapData,    \* the WorldMapData returned by createWorldMap (or the throw)
    pc,         \* "init" -> "built" -> "queried"
    qMode,      \* getRegionInfo argument mode
    qId,        \* getRegionInfo argument regionId
    info,       \* value returned by getRegionInfo (or the throw)
    seedId,     \* hashColor argument id
    hashOut,    \* value returned by hashColor
    colorOut,   \* value returned by getRegionColor
    scale,      \* GridMap: scale.value, a rational [n, d]
    offsetX,    \* GridMap: offsetX.value, a rational
    offsetY,    \* GridMap: offsetY.value, a rational
    isDragging, \* GridMap: isDragging.value
    dragStart,  \* GridMap: dragStart.value, [x, y] of integers
    dragOrigin, \* GridMap: dragOrigin.value, [x, y] of rationals
    emitted,    \* GridMap: the select events emitted so far
    event,      \* GridMap: the DOM event handled last, n the count so far
    capture,    \* GridMap: the pointer ids the canvas holds the capture of
    dragWorld,  \* history: the world point under the pointer at pointerdown
    boundary,   \* GridMap: the segments of the boundary path drawn last
    editName,   \* MapPage: editName.value
    editColor,  \* MapPage: editColor.value
    parentMode, \* MapPage: parentMode.value
    editParentId, \* MapPage: editParentId.value
    snapshot,   \* MapPage: normalizedOverrides.value as exported last
    freshInfo   \* RegionInfo of the selection queried on a map built from snapshot

mapVars == <<width, height, overrides, mapData, qMode, qId, info>>
hashVars == <<seedId, hashOut>>
colorVars == <<colorOut>>
viewVars == <<scale, offsetX, offsetY, isDragging, dragStart, dragOrigin,
              emitted, event>>
pageVars == <<editName, editColor, parentMode, editParentId, snapshot,
              freshInfo>>
canvasVars == <<capture, dragWorld, boundary>>
vars == <<mapVars, pc, hashVars, colorVars, viewVars, canvasVars, pageVars>>

----------------------------------------------------------------------------
(* Bounds of the model *)

MaxW == 5
MaxH == 2
MaxIndexKey == 9

----------------------------------------------------------------------------
(* Program constants *)

KINGDOM_SIZE == 4
DUCHY_SIZE == 2
EMPIRE_ID == "e-0"

Modes == {"county", "duchy", "kingdom", "empire"}

----------------------------------------------------------------------------
(* JavaScript values and objects *)

\* A value of type string | null | undefined.
Undef == [t |-> "undefined", s |-> ""]
Null == [t |-> "null", s |-> ""]
JStr(s) == [t |-> "string", s |-> s]

Digits == <<"0", "1", "2", "3", "4", "5", "6", "7", "8", "9">>

\* The decimal text a template literal `${n}` produces for a natural number.
RECURSIVE DecimalString(_)
DecimalString(n) ==
    IF n < 10 THEN Digits[n + 1]
    ELSE DecimalString(n \div 10) \o Digits[(n % 10) + 1]

\* Property names every plain object inherits from Object.prototype: a lookup
\* obj[k] with one of these as k yields a truthy value that is not a region.
ProtoKeys ==
    {"constructor", "__proto__", "toString", "valueOf", "hasOwnProperty",
     "isPrototypeOf", "propertyIsEnumerable", "toLocaleString"}

\* A plain object used as Record<string, X>: own keys in enumeration order
\* (integer-like keys ascending, then the other keys in insertion order).
EmptyObj == [keys |-> <<>>, val |-> <<>>]

IsIndexKey(k) == \E n \in 0..MaxIndexKey : DecimalString(n) = k
IndexOf(k) == CHOOSE n \in 0..MaxIndexKey : DecimalString(n) = k

HasOwn(obj, k) == k \in DOMAIN obj.val

\* Position at which a new own key is enumerated.
InsertPos(keys, k) ==
    IF IsIndexKey(k)
    THEN 1 + Cardinality({i \in 1..Len(keys) :
                 IsIndexKey(keys[i]) /\ IndexOf(keys[i]) < IndexOf(k)})
    ELSE Len(keys) + 1

\* obj[k] = v
ObjSet(obj, k, v) ==
    IF HasOwn(obj, k)
    THEN [obj EXCEPT !.val[k] = v]
    ELSE LET p == InsertPos(obj.keys, k)
         IN [keys |-> SubSeq(obj.keys, 1, p - 1) \o <<k>>
                        \o SubSeq(obj.keys, p, Len(obj.keys)),
             val |-> (k :> v) @@ obj.val]

\* What obj[k] is: an own value, something inherited, or undefined.
LookupKind(obj, k) ==
    IF HasOwn(obj, k) THEN "own"
    ELSE IF k \in ProtoKeys THEN "inherited"
    ELSE "undefined"

\* Object.keys(obj); Object.values(obj) is the values in this order.
ObjectKeys(obj) == obj.keys

\* A Map<string, X>.
EmptyMap == <<>>
MapHas(m, k) == k \in DOMAIN m
MapSet(m, k, v) == (k :> v) @@ m

----------------------------------------------------------------------------
(* RegionMeta and RegionOverrides *)

\* shape: what the table holds at the entry: "undefined" (no entry),
\* "falsy" (null, 0, ""), "primitive" (a truthy non-object) or "object".
NoMeta == [shape |-> "undefined", hasParentKey |-> FALSE, parentId |-> Undef,
           name |-> Undef, color |-> Undef]
FalsyMeta == [NoMeta EXCEPT !.shape = "falsy"]
PrimitiveMeta == [NoMeta EXCEPT !.shape = "primitive"]
EmptyMeta == [NoMeta EXCEPT !.shape = "object"]
ParentMeta(p) == [EmptyMeta EXCEPT !.hasParentKey = TRUE, !.parentId = p]

\* One level table of RegionOverrides: absent, or a record of entries.
NoTable == [present |-> FALSE, entries |-> <<>>]

NoOverrides ==
    [counties |-> NoTable, duchies |-> NoTable, kingdoms |-> NoTable,
     empire |-> NoMeta]

\* table?.[regionId]
TableGet(table, regionId) ==
    IF table.present /\ regionId \in DOMAIN table.entries
    THEN table.entries[regionId]
    ELSE NoMeta

\* !override
Falsy(override) == override.shape \in {"undefined", "falsy"}

\* Object.prototype.hasOwnProperty.call(override, "parentId")
HasParentKey(override) == override.shape = "object" /\ override.hasParentKey

getRegionOverride(mode, regionId, ov) ==
    CASE mode = "county" -> TableGet(ov.counties, regionId)
      [] mode = "duchy" -> TableGet(ov.duchies, regionId)
      [] mode = "kingdom" -> TableGet(ov.kingdoms, regionId)
      [] mode = "empire" -> ov.empire
      [] OTHER -> NoMeta

\* fallback is a string | null value; the result is one too.
resolveParentId(override, fallback) ==
    IF Falsy(override) THEN fallback
    ELSE IF HasParentKey(override)
         THEN IF override.parentId.t = "undefined" THEN Null
              ELSE override.parentId
         ELSE fallback

\* Variant: a missing parentId key is read like null (override.parentId == null).
resolveGroupParentId_AbsentIsNull(override, fallback, orphanId) ==
    IF Falsy(override) THEN fallback
    ELSE IF HasParentKey(override) /\ override.parentId.t = "string"
         THEN override.parentId.s
         ELSE orphanId

\* Variant: null is read like undefined (override.parentId ?? fallback only).
resolveGroupParentId_NullIsDefault(override, fallback, orphanId) ==
    IF Falsy(override) THEN fallback
    ELSE IF HasParentKey(override) /\ override.parentId.t = "string"
         THEN override.parentId.s
         ELSE fallback

\* fallback and orphanId are strings; so is the result.
resolveGroupParentId(override, fallback, orphanId) ==
    IF Falsy(override) THEN fallback
    ELSE IF HasParentKey(override)
         THEN IF override.parentId.t = "null" THEN orphanId
              ELSE IF override.parentId.t = "undefined" THEN fallback
              ELSE override.parentId.s
         ELSE fallback

----------------------------------------------------------------------------
(* createWorldMap *)

\* Variant: the county id taken from the duchy column instead of the tile's.
CountyId_DuchyColumn(x, y) ==
    "c-" \o DecimalString(y) \o "-" \o DecimalString(x \div DUCHY_SIZE)

CountyId(x, y) == "c-" \o DecimalString(y) \o "-" \o DecimalString(x)
TileId(x, y) == "t-" \o DecimalString(y) \o "-" \o DecimalString(x)
DefaultDuchyId(x, y) ==
    "d-" \o DecimalString(y \div DUCHY_SIZE) \o "-"
         \o DecimalString(x \div DUCHY_SIZE)
DefaultKingdomId(x, y) ==
    "k-" \o DecimalString(y \div KINGDOM_SIZE) \o "-"
         \o DecimalString(x \div KINGDOM_SIZE)
DuchyOrphanId(countyId) == "d-orphan-" \o countyId
KingdomOrphanId(duchyId) == "k-orphan-" \o duchyId

\* First loop over the grid: one county per tile, and its natural parents.
\* acc = [counties, countyDefaults]; i is the row-major index of (x, y).
\* (The second disjunct of each loop's exit test is a fact about the
\* accumulator that never holds; reading it computes the accumulator at the
\* head of the iteration.)
RECURSIVE RegisterTiles(_, _, _, _)
RegisterTiles(w, h, i, acc) ==
    IF i >= w * h \/ Len(acc.counties.keys) > i THEN acc
    ELSE LET x == i % w
             y == i \div w
             countyId == CountyId(x, y)
             isNew == LookupKind(acc.counties, countyId) = "undefined"
             acc1 ==
                 IF isNew
                 THEN [counties |->
                           ObjSet(acc.counties, countyId,
                                  [id |-> countyId, tileIds |-> <<>>,
                                   duchyId |-> DefaultDuchyId(x, y)]),
                       countyDefaults |->
                           MapSet(acc.countyDefaults, countyId,
                                  [duchyId |-> DefaultDuchyId(x, y),
                                   kingdomId |-> DefaultKingdomId(x, y)])]
                 ELSE acc
             acc2 == [acc1 EXCEPT !.counties.val[countyId].tileIds =
                                      Append(@, TileId(x, y))]
         IN RegisterTiles(w, h, i + 1, acc2)

\* Second loop: the duchy of every county, and the natural kingdom of every
\* duchy (that of the first county assigned to it).
\* acc = [counties, duchyDefaults]; ids = Object.keys(counties).
RECURSIVE ResolveCountyParents(_, _, _, _, _)
ResolveCountyParents(ids, i, countyDefaults, ov, acc) ==
    IF i > Len(ids) \/ Len(acc.counties.keys) # Len(ids) THEN acc
    ELSE LET id == ids[i]
             hasDefaults == MapHas(countyDefaults, id)
             fallbackDuchyId ==
                 IF hasDefaults THEN countyDefaults[id].duchyId
                 ELSE DuchyOrphanId(id)
             override == TableGet(ov.counties, id)
             duchyId == resolveGroupParentId(override, fallbackDuchyId,
                                             DuchyOrphanId(id))
             defaultKingdom ==
                 IF hasDefaults THEN countyDefaults[id].kingdomId
                 ELSE KingdomOrphanId(duchyId)
         IN ResolveCountyParents(ids, i + 1, countyDefaults, ov,
                [counties |-> [acc.counties EXCEPT !.val[id].duchyId = duchyId],
                 duchyDefaults |->
                     IF MapHas(acc.duchyDefaults, duchyId)
                     THEN acc.duchyDefaults
                     ELSE MapSet(acc.duchyDefaults, duchyId, defaultKingdom)])

\* Third loop: the duchy table, children derived from county.duchyId.
\* acc = [threw, duchies]. A duchyId that names an inherited property finds
\* a truthy non-duchy, whose countyIds is undefined: push throws TypeError.
RECURSIVE GroupCounties(_, _, _, _)
GroupCounties(ids, i, counties, acc) ==
    IF i > Len(ids) \/ acc.threw THEN acc
    ELSE LET county == counties.val[ids[i]]
             duchyId == county.duchyId
             kind == LookupKind(acc.duchies, duchyId)
             duchies1 ==
                 IF kind = "undefined"
                 THEN ObjSet(acc.duchies, duchyId,
                             [id |-> duchyId, countyIds |-> <<>>,
                              kingdomId |-> ""])
                 ELSE acc.duchies
         IN IF kind = "inherited"
            THEN [acc EXCEPT !.threw = TRUE]
            ELSE GroupCounties(ids, i + 1, counties,
                     [threw |-> FALSE,
                      duchies |-> [duchies1 EXCEPT !.val[duchyId].countyIds =
                                       Append(@, county.id)]])

\* Variant: the duchy overrides are not consulted.
RECURSIVE ResolveDuchyParents_NoOverride(_, _, _, _, _)
ResolveDuchyParents_NoOverride(ids, i, duchyDefaults, ov, duchies) ==
    IF i > Len(ids) \/ Len(duchies.keys) # Len(ids) THEN duchies
    ELSE LET id == duchies.val[ids[i]].id
             fallbackKingdomId ==
                 IF MapHas(duchyDefaults, id) THEN duchyDefaults[id]
                 ELSE KingdomOrphanId(id)
         IN ResolveDuchyParents_NoOverride(ids, i + 1, duchyDefaults, ov,
                [duchies EXCEPT !.val[ids[i]].kingdomId = fallbackKingdomId])

\* Fourth loop: the kingdom of every duchy. ids = Object.keys(duchies).
RECURSIVE ResolveDuchyParents(_, _, _, _, _)
ResolveDuchyParents(ids, i, duchyDefaults, ov, duchies) ==
    IF i > Len(ids) \/ Len(duchies.keys) # Len(ids) THEN duchies
    ELSE LET id == duchies.val[ids[i]].id
             fallbackKingdomId ==
                 IF MapHas(duchyDefaults, id) THEN duchyDefaults[id]
                 ELSE KingdomOrphanId(id)
             override == TableGet(ov.duchies, id)
             kingdomId == resolveGroupParentId(override, fallbackKingdomId,
                                               KingdomOrphanId(id))
         IN ResolveDuchyParents(ids, i + 1, duchyDefaults, ov,
                [duchies EXCEPT !.val[ids[i]].kingdomId = kingdomId])

\* Fifth loop: the kingdom table, children derived from duchy.kingdomId.
\* acc = [threw, kingdoms]; throws as GroupCounties does.
RECURSIVE GroupDuchies(_, _, _, _)
GroupDuchies(ids, i, duchies, acc) ==
    IF i > Len(ids) \/ acc.threw THEN acc
    ELSE LET duchy == duchies.val[ids[i]]
             kingdomId == duchy.kingdomId
             kind == LookupKind(acc.kingdoms, kingdomId)
             kingdoms1 ==
                 IF kind = "undefined"
                 THEN ObjSet(acc.kingdoms, kingdomId,
                             [id |-> kingdomId, duchyIds |-> <<>>,
                              empireId |-> EMPIRE_ID])
                 ELSE acc.kingdoms
         IN IF kind = "inherited"
            THEN [acc EXCEPT !.threw = TRUE]
            ELSE GroupDuchies(ids, i + 1, duchies,
                     [threw |-> FALSE,
                      kingdoms |-> [kingdoms1 EXCEPT !.val[kingdomId].duchyIds =
                                        Append(@, duchy.id)]])

\* Variant: the tile keeps the natural duchy and kingdom of its coordinates.
RECURSIVE BuildTiles_NaturalParents(_, _, _, _, _, _)
BuildTiles_NaturalParents(w, h, i, counties, duchies, tiles) ==
    IF i >= w * h \/ Len(tiles) # i THEN tiles
    ELSE LET x == i % w
             y == i \div w
         IN BuildTiles_NaturalParents(w, h, i + 1, counties, duchies,
                Append(tiles,
                       [id |-> TileId(x, y), x |-> x, y |-> y,
                        countyId |-> CountyId(x, y),
                        duchyId |-> DefaultDuchyId(x, y),
                        kingdomId |-> DefaultKingdomId(x, y),
                        empireId |-> EMPIRE_ID]))

\* Last loop: the tile list, row-major, with the region ids of every level.
RECURSIVE BuildTiles(_, _, _, _, _, _)
BuildTiles(w, h, i, counties, duchies, tiles) ==
    IF i >= w * h \/ Len(tiles) # i THEN tiles
    ELSE LET x == i % w
             y == i \div w
             countyId == CountyId(x, y)
             duchyId == counties.val[countyId].duchyId
             kingdomId ==
                 IF LookupKind(duchies, duchyId) = "own"
                 THEN duchies.val[duchyId].kingdomId
                 ELSE KingdomOrphanId(duchyId)
         IN BuildTiles(w, h, i + 1, counties, duchies,
                Append(tiles,
                       [id |-> TileId(x, y), x |-> x, y |-> y,
                        countyId |-> countyId, duchyId |-> duchyId,
                        kingdomId |-> kingdomId, empireId |-> EMPIRE_ID]))

\* The value createWorldMap has when it throws, and before it has run.
NoMap ==
    [threw |-> FALSE, width |-> 0, height |-> 0, tiles |-> <<>>,
     counties |-> EmptyObj, duchies |-> EmptyObj, kingdoms |-> EmptyObj,
     empire |-> [id |-> EMPIRE_ID, kingdomIds |-> <<>>]]
Thrown == [NoMap EXCEPT !.threw = TRUE]

createWorldMap(w, h, ov) ==
    LET reg == RegisterTiles(w, h, 0,
                   [counties |-> EmptyObj, countyDefaults |-> EmptyMap])
        res == ResolveCountyParents(ObjectKeys(reg.counties), 1,
                   reg.countyDefaults, ov,
                   [counties |-> reg.counties, duchyDefaults |-> EmptyMap])
        counties == res.counties
        grp == GroupCounties(ObjectKeys(counties), 1, counties,
                   [threw |-> FALSE, duchies |-> EmptyObj])
        duchies == ResolveDuchyParents(ObjectKeys(grp.duchies), 1,
                       res.duchyDefaults, ov, grp.duchies)
        kgs == GroupDuchies(ObjectKeys(duchies), 1, duchies,
                   [threw |-> FALSE, kingdoms |-> EmptyObj])
    IN IF grp.threw THEN Thrown
       ELSE IF kgs.threw THEN Thrown
       ELSE [threw |-> FALSE, width |-> w, height |-> h,
             tiles |-> BuildTiles(w, h, 0, counties, duchies, <<>>),
             counties |-> counties, duchies |-> duchies,
             kingdoms |-> kgs.kingdoms,
             empire |-> [id |-> EMPIRE_ID,
                         kingdomIds |-> ObjectKeys(kgs.kingdoms)]]

----------------------------------------------------------------------------
(* getRegionInfo *)

\* What getRegionInfo returns: null, a RegionInfo, or a thrown TypeError.
NullInfo ==
    [threw |-> FALSE, isNull |-> TRUE, id |-> "", mode |-> "", tileCount |-> 0,
     parentId |-> Null, name |-> Undef, color |-> Undef]
ThrownInfo == [NullInfo EXCEPT !.threw = TRUE, !.isNull = FALSE]

getRegionId(tile, mode) ==
    CASE mode = "county" -> tile.countyId
      [] mode = "duchy" -> tile.duchyId
      [] mode = "kingdom" -> tile.kingdomId
      [] mode = "empire" -> tile.empireId
      [] OTHER -> tile.countyId

\* defaultParentId is a string | null value. override?.name of a non-object
\* entry is undefined.
buildRegionInfo(mode, id, tileCount, defaultParentId, ov) ==
    LET override == getRegionOverride(mode, id, ov)
    IN [threw |-> FALSE, isNull |-> FALSE, id |-> id, mode |-> mode,
        tileCount |-> tileCount,
        parentId |-> resolveParentId(override, defaultParentId),
        name |-> override.name, color |-> override.color]

\* Variant: the kingdom counts its duchies instead of their counties.
SumCounties_CountDuchies(md, duchyIds, i) == Len(duchyIds)

\* kingdom.duchyIds.reduce(...): the counties of the listed duchies; a duchy id
\* that is not in the duchy table contributes 0.
RECURSIVE SumCounties(_, _, _)
SumCounties(md, duchyIds, i) ==
    IF i > Len(duchyIds) THEN 0
    ELSE (IF LookupKind(md.duchies, duchyIds[i]) = "own"
          THEN Len(md.duchies.val[duchyIds[i]].countyIds)
          ELSE 0)
         + SumCounties(md, duchyIds, i + 1)

\* The table a mode is looked up in.
TableOf(md, mode) ==
    CASE mode = "county" -> md.counties
      [] mode = "duchy" -> md.duchies
      [] mode = "kingdom" -> md.kingdoms

\* A regionId that names an inherited property finds a truthy value without
\* tileIds / countyIds / duchyIds: reading their length (or reduce) throws.
getRegionInfo(md, mode, regionId, ov) ==
    IF mode \in {"county", "duchy", "kingdom"}
    THEN LET kind == LookupKind(TableOf(md, mode), regionId)
         IN IF kind = "undefined" THEN NullInfo
            ELSE IF kind = "inherited" THEN ThrownInfo
            ELSE LET r == TableOf(md, mode).val[regionId]
                 IN CASE mode = "county" ->
                           buildRegionInfo(mode, r.id, Len(r.tileIds),
                                           JStr(r.duchyId), ov)
                      [] mode = "duchy" ->
                           buildRegionInfo(mode, r.id, Len(r.countyIds),
                                           JStr(r.kingdomId), ov)
                      [] mode = "kingdom" ->
                           buildRegionInfo(mode, r.id,
                                           SumCounties(md, r.duchyIds, 1),
                                           JStr(r.empireId), ov)
    ELSE IF mode = "empire"
    THEN buildRegionInfo(mode, md.empire.id, md.width * md.height, Null, ov)
    ELSE NullInfo

----------------------------------------------------------------------------
(* Inputs *)

MaxOverrides == 2

NamedMeta == [EmptyMeta EXCEPT !.name = JStr("Name"),
                               !.color = JStr("oklch(60% 0.1 200)")]

\* Override entries the inputs are drawn from: [level, id, meta].
Entry(level, id, meta) == [level |-> level, id |-> id, meta |-> meta]

CountyEntries ==
    {Entry("county", "c-0-0", m) :
        m \in {ParentMeta(Null), ParentMeta(Undef), ParentMeta(JStr("d-0-2")),
               ParentMeta(JStr("")), ParentMeta(JStr("constructor")),
               EmptyMeta, NamedMeta, PrimitiveMeta, FalsyMeta,
               [NamedMeta EXCEPT !.hasParentKey = TRUE, !.parentId = Null]}}
    \cup {Entry("county", "c-0-1", m) :
        m \in {ParentMeta(Null), ParentMeta(JStr("d-orphan-c-0-0"))}}

DuchyEntries ==
    {Entry("duchy", "d-0-0", m) :
        m \in {ParentMeta(Null), ParentMeta(JStr("k-x")), ParentMeta(JStr("7")),
               ParentMeta(JStr("__proto__")), NamedMeta}}
    \cup {Entry("duchy", "d-orphan-c-0-0", ParentMeta(Null))}

KingdomEntries ==
    {Entry("kingdom", "k-0-0", m) :
        m \in {ParentMeta(Null), ParentMeta(JStr("e-1")), NamedMeta}}

EmpireEntries ==
    {Entry("empire", EMPIRE_ID, m) :
        m \in {NamedMeta, ParentMeta(JStr("e-1"))}}

EntryPool == CountyEntries \cup DuchyEntries \cup KingdomEntries \cup EmpireEntries

Slot(e) == <<e.level, e.id>>

\* Sets of at most n entries, no two for the same region.
RECURSIVE EntrySets(_)
EntrySets(n) ==
    IF n = 0 THEN {{}}
    ELSE LET P == EntrySets(n - 1)
         IN P \cup UNION {{S \cup {e} :
                              e \in {f \in EntryPool :
                                        \A g \in S : Slot(g) # Slot(f)}} :
                          S \in P}

MkTable(S, level) ==
    LET E == {e \in S : e.level = level}
    IN IF E = {} THEN NoTable
       ELSE [present |-> TRUE,
             entries |-> [id \in {e.id : e \in E} |->
                            (CHOOSE e \in E : e.id = id).meta]]

MkOverrides(S) ==
    [counties |-> MkTable(S, "county"),
     duchies |-> MkTable(S, "duchy"),
     kingdoms |-> MkTable(S, "kingdom"),
     empire |-> IF \E e \in S : e.level = "empire"
                THEN (CHOOSE e \in S : e.level = "empire").meta
                ELSE NoMeta]

OverrideInputs == {MkOverrides(S) : S \in EntrySets(MaxOverrides)}

UnknownIds == {"x-unknown", "constructor"}

\* Region ids a query is made with: those of the map at the mode, and some
\* that are not.
QueryIds(md, mode) ==
    (IF mode = "empire" THEN {md.empire.id}
     ELSE {TableOf(md, mode).keys[i] : i \in 1..Len(TableOf(md, mode).keys)})
    \cup UnknownIds

----------------------------------------------------------------------------
(* The state machine *)

\* A rational number n / d, d > 0.
Rat(n, d) == [n |-> n, d |-> d]

\* The variables of the other specifications, at rest.
HashIdle == seedId = "" /\ hashOut = ""
ColorIdle == colorOut = ""
ViewIdle ==
    /\ scale = Rat(1, 1) /\ offsetX = Rat(0, 1) /\ offsetY = Rat(0, 1)
    /\ isDragging = FALSE
    /\ dragStart = [x |-> 0, y |-> 0]
    /\ dragOrigin = [x |-> Rat(0, 1), y |-> Rat(0, 1)]
    /\ emitted = <<>>
    /\ event = [type |-> "none", x |-> 0, y |-> 0, deltaY |-> 0, n |-> 0,
                pointerId |-> 0]
    /\ capture = {}
    /\ dragWorld = [x |-> Rat(0, 1), y |-> Rat(0, 1)]
    /\ boundary = <<>>
PageIdle ==
    /\ editName = "" /\ editColor = "" /\ parentMode = "default"
    /\ editParentId = "" /\ snapshot = NoOverrides /\ freshInfo = NullInfo

Init ==
    /\ width \in 1..MaxW
    /\ height \in 1..MaxH
    /\ overrides \in OverrideInputs
    /\ mapData = NoMap
    /\ pc = "init"
    /\ qMode = "county"
    /\ qId = ""
    /\ info = NullInfo
    /\ HashIdle /\ ColorIdle /\ ViewIdle /\ PageIdle

\* mapData = createWorldMap(width, height, overrides)
Build ==
    /\ pc = "init"
    /\ mapData' = createWorldMap(width, height, overrides)
    /\ pc' = "built"
    /\ UNCHANGED <<width, height, overrides, qMode, qId, info>>
    /\ UNCHANGED <<hashVars, colorVars, viewVars, canvasVars, pageVars>>

\* info = getRegionInfo(mapData, mode, regionId, overrides)
Query(mode, regionId) ==
    /\ pc = "built"
    /\ ~mapData.threw
    /\ qMode' = mode
    /\ qId' = regionId
    /\ info' = getRegionInfo(mapData, mode, regionId, overrides)
    /\ pc' = "queried"
    /\ UNCHANGED <<width, height, overrides, mapData>>
    /\ UNCHANGED <<hashVars, colorVars, viewVars, canvasVars, pageVars>>

Next ==
    \/ Build
    \/ \E mode \in Modes : \E regionId \in QueryIds(mapData, mode) :
           Query(mode, regionId)

Spec == Init /\ [][Next]_vars

----------------------------------------------------------------------------
(* Properties of the built map *)

Range(seq) == {seq[i] : i \in 1..Len(seq)}
NoDuplicates(seq) == Cardinality(Range(seq)) = Len(seq)
Occurrences(seq, v) == Cardinality({i \in 1..Len(seq) : seq[i] = v})

Built == pc # "init" /\ ~mapData.threw

CountyKeys == Range(mapData.counties.keys)
DuchyKeys == Range(mapData.duchies.keys)
KingdomKeys == Range(mapData.kingdoms.keys)

\* C1: with empty overrides the map has width*height tiles, the tile at (x, y)
\* belongs to exactly one county, c-y-x, and the tileIds lists of the counties
\* are pairwise disjoint and together hold every tile of the grid exactly once.
C1_CountyPartition ==
    (pc # "init" /\ overrides = NoOverrides) =>
        /\ ~mapData.threw
        /\ Len(mapData.tiles) = width * height
        /\ \A y \in 0..(height - 1) : \A x \in 0..(width - 1) :
              LET tile == mapData.tiles[y * width + x + 1]
                  cid == "c-" \o DecimalString(y) \o "-" \o DecimalString(x)
              IN /\ tile.x = x /\ tile.y = y
                 /\ tile.countyId = cid
                 /\ {c \in CountyKeys :
                        tile.id \in Range(mapData.counties.val[c].tileIds)}
                      = {cid}
        /\ \A c \in CountyKeys : NoDuplicates(mapData.counties.val[c].tileIds)
        /\ \A c1 \in CountyKeys : \A c2 \in CountyKeys \ {c1} :
              Range(mapData.counties.val[c1].tileIds)
                \cap Range(mapData.counties.val[c2].tileIds) = {}
        /\ UNION {Range(mapData.counties.val[c].tileIds) : c \in CountyKeys}
             = {mapData.tiles[i].id : i \in 1..Len(mapData.tiles)}
        /\ Cardinality({mapData.tiles[i].id : i \in 1..Len(mapData.tiles)})
             = width * height

C1_Witness ==
    /\ pc = "built" /\ overrides = NoOverrides
    /\ width = MaxW /\ height = MaxH
    /\ Len(mapData.tiles) = MaxW * MaxH

\* C2: in every built map the children lists are the inverse of the parent
\* pointers: a county id occurs in the countyIds of exactly one duchy, the one
\* named by county.duchyId, and once; likewise duchies in kingdoms; every
\* parent id is a key of its table; a tile's duchyId and kingdomId are those
\* of its county and of that county's duchy.
C2_ChildrenInverseOfParents ==
    Built =>
        /\ \A c \in CountyKeys :
              LET d == mapData.counties.val[c].duchyId
              IN /\ HasOwn(mapData.duchies, d) /\ d \in DuchyKeys
                 /\ {k \in DuchyKeys :
                        c \in Range(mapData.duchies.val[k].countyIds)} = {d}
                 /\ Occurrences(mapData.duchies.val[d].countyIds, c) = 1
        /\ \A k \in DuchyKeys :
              Range(mapData.duchies.val[k].countyIds) \subseteq CountyKeys
        /\ \A d \in DuchyKeys :
              LET k == mapData.duchies.val[d].kingdomId
              IN /\ HasOwn(mapData.kingdoms, k) /\ k \in KingdomKeys
                 /\ {g \in KingdomKeys :
                        d \in Range(mapData.kingdoms.val[g].duchyIds)} = {k}
                 /\ Occurrences(mapData.kingdoms.val[k].duchyIds, d) = 1
        /\ \A g \in KingdomKeys :
              Range(mapData.kingdoms.val[g].duchyIds) \subseteq DuchyKeys
        /\ \A i \in 1..Len(mapData.tiles) :
              LET tile == mapData.tiles[i]
              IN /\ tile.countyId \in CountyKeys
                 /\ tile.duchyId = mapData.counties.val[tile.countyId].duchyId
                 /\ tile.kingdomId = mapData.duchies.val[tile.duchyId].kingdomId

C2_Witness ==
    /\ pc = "built" /\ ~mapData.threw
    /\ "d-orphan-c-0-0" \in DuchyKeys
    /\ "k-x" \in KingdomKeys
    /\ mapData.tiles[1].duchyId = "d-orphan-c-0-0"

\* Whether regionId is the id of a region of the map at the mode.
IsRegion(mode, regionId) ==
    IF mode = "empire" THEN regionId = mapData.empire.id
    ELSE HasOwn(TableOf(mapData, mode), regionId)

TilesOf(mode, regionId) ==
    {i \in 1..Len(mapData.tiles) : getRegionId(mapData.tiles[i], mode) = regionId}

\* C3: for every region id of the map at every level, the tileCount that
\* getRegionInfo returns is the number of tiles of the tile list whose region
\* id at that level is that id; the empire's tileCount is width*height.
C3_TileCountIsEnumeration ==
    (pc = "queried" /\ IsRegion(qMode, qId)) =>
        /\ ~info.threw /\ ~info.isNull
        /\ info.tileCount = Cardinality(TilesOf(qMode, qId))
        /\ qMode = "empire" => info.tileCount = width * height

C3_Witness ==
    /\ pc = "queried" /\ qMode = "kingdom" /\ qId = "k-x"
    /\ IsRegion(qMode, qId)
    /\ info.tileCount >= 2
    /\ Cardinality(DuchyKeys) >= 2

\* The part of an entry that carries a parentId key: name and color removed.
TopologyMeta(m) ==
    IF m.shape = "object" THEN [m EXCEPT !.name = Undef, !.color = Undef]
    ELSE m

\* Whether an object entry exists only to carry a name or a color.
OnlyNameOrColor(m) == m.shape = "object" /\ ~m.hasParentKey

TopologyTable(t) ==
    LET keep == {id \in DOMAIN t.entries : ~OnlyNameOrColor(t.entries[id])}
    IN IF ~t.present \/ keep = {} THEN NoTable
       ELSE [present |-> TRUE,
             entries |-> [id \in keep |-> TopologyMeta(t.entries[id])]]

\* Overrides that agree with ov on the parentId keys and values and carry no
\* name, no color and no entry that has only those.
Topology(ov) ==
    [counties |-> TopologyTable(ov.counties),
     duchies |-> TopologyTable(ov.duchies),
     kingdoms |-> TopologyTable(ov.kingdoms),
     empire |-> IF OnlyNameOrColor(ov.empire) THEN NoMeta
                ELSE TopologyMeta(ov.empire)]

\* C5: overrides that differ only in name and color fields, entries that carry
\* nothing else included, give the same map for the same width and height.
C5_NameColorDoNotChangeMap ==
    pc = "built" =>
        mapData = createWorldMap(width, height, Topology(overrides))

C5_Witness ==
    /\ pc = "built" /\ ~mapData.threw
    /\ Topology(overrides) # overrides
    /\ overrides.counties.present
    /\ "c-0-0" \in DOMAIN overrides.counties.entries
    /\ overrides.counties.entries["c-0-0"].name.t = "string"
    /\ overrides.duchies.present
    /\ "d-0-0" \in DOMAIN overrides.duchies.entries
    /\ OnlyNameOrColor(overrides.duchies.entries["d-0-0"])
    /\ mapData.tiles[1].duchyId = "d-orphan-c-0-0"

\* The override entry of a region of the map.
OverrideOf(mode, regionId) == getRegionOverride(mode, regionId, overrides)
HasNullParent(m) == HasParentKey(m) /\ m.parentId.t = "null"
NamesParent(m, parentId) ==
    HasParentKey(m) /\ m.parentId.t = "string" /\ m.parentId.s = parentId

\* C6 (as claimed): a county C whose override sets parentId to null gets, with
\* its tile, the duchy d-orphan-<C>, and getRegionInfo for that duchy returns
\* tileCount 1; a duchy D with null parent gets the kingdom k-orphan-<D>.
C6_OrphanCountIsOne ==
    /\ Built =>
          /\ \A c \in CountyKeys :
                HasNullParent(OverrideOf("county", c)) =>
                    /\ mapData.counties.val[c].duchyId = "d-orphan-" \o c
                    /\ \A i \in TilesOf("county", c) :
                          mapData.tiles[i].duchyId = "d-orphan-" \o c
          /\ \A d \in DuchyKeys :
                HasNullParent(OverrideOf("duchy", d)) =>
                    mapData.duchies.val[d].kingdomId = "k-orphan-" \o d
    /\ pc = "queried" /\ qMode = "duchy" =>
          \A c \in CountyKeys :
              (HasNullParent(OverrideOf("county", c)) /\ qId = "d-orphan-" \o c)
                  => (~info.isNull /\ ~info.threw /\ info.tileCount = 1)

\* C6 (amended): as claimed, except that the tileCount of d-orphan-<C> is 1
\* plus the number of other counties whose override names d-orphan-<C> as
\* parentId.
C6_OrphanCountsNamingCounties ==
    /\ Built =>
          /\ \A c \in CountyKeys :
                HasNullParent(OverrideOf("county", c)) =>
                    /\ mapData.counties.val[c].duchyId = "d-orphan-" \o c
                    /\ \A i \in TilesOf("county", c) :
                          mapData.tiles[i].duchyId = "d-orphan-" \o c
          /\ \A d \in DuchyKeys :
                HasNullParent(OverrideOf("duchy", d)) =>
                    mapData.duchies.val[d].kingdomId = "k-orphan-" \o d
    /\ pc = "queried" /\ qMode = "duchy" =>
          \A c \in CountyKeys :
              (HasNullParent(OverrideOf("county", c)) /\ qId = "d-orphan-" \o c)
                  => /\ ~info.isNull /\ ~info.threw
                     /\ info.tileCount =
                          1 + Cardinality({o \in CountyKeys \ {c} :
                                  NamesParent(OverrideOf("county", o),
                                              "d-orphan-" \o c)})

C6_Witness ==
    /\ pc = "queried" /\ qMode = "duchy" /\ qId = "d-orphan-c-0-0"
    /\ HasNullParent(OverrideOf("county", "c-0-0"))
    /\ HasNullParent(OverrideOf("duchy", "d-orphan-c-0-0"))
    /\ mapData.duchies.val["d-orphan-c-0-0"].kingdomId
         = "k-orphan-d-orphan-c-0-0"
    /\ info.tileCount = 1

\* The ids the grid gives its duchies and kingdoms when nothing is overridden.
NaturalDuchyIds ==
    {DefaultDuchyId(x, y) : x \in 0..(width - 1), y \in 0..(height - 1)}
NaturalKingdomIds ==
    {DefaultKingdomId(x, y) : x \in 0..(width - 1), y \in 0..(height - 1)}

NamesUnnatural(m, natural) ==
    HasParentKey(m) /\ m.parentId.t = "string" /\ m.parentId.s \notin natural

TreatedAsNoOverride(m) ==
    \/ m.shape \in {"undefined", "falsy", "primitive"}
    \/ m.shape = "object" /\ ~m.hasParentKey
    \/ m.shape = "object" /\ m.hasParentKey /\ m.parentId.t = "undefined"
    \/ m.shape = "object" /\ m.hasParentKey /\ m.parentId = JStr("")

\* C8: createWorldMap never fails, and a region whose entry is missing, has no
\* parentId key, holds undefined or is of invalid shape (empty object,
\* non-object, empty-string parentId) keeps its natural parent.
C8_NeverFailsMalformedIsDefault ==
    pc # "init" =>
        /\ ~mapData.threw
        /\ \A y \in 0..(height - 1) : \A x \in 0..(width - 1) :
              TreatedAsNoOverride(OverrideOf("county", CountyId(x, y))) =>
                  mapData.counties.val[CountyId(x, y)].duchyId
                    = "d-" \o DecimalString(y \div DUCHY_SIZE) \o "-"
                           \o DecimalString(x \div DUCHY_SIZE)
        /\ \A d \in DuchyKeys :
              TreatedAsNoOverride(OverrideOf("duchy", d)) =>
                  mapData.duchies.val[d].kingdomId
                    = createWorldMap(width, height,
                          [overrides EXCEPT !.duchies = NoTable])
                        .duchies.val[d].kingdomId

\* C9: every kingdom has the empire e-0 as parent, empire.kingdomIds is the
\* set of kingdom ids without duplicates, and getRegionInfo reports parentId
\* e-0 for every kingdom, whatever the kingdom overrides carry.
C9_KingdomParentIsEmpire ==
    /\ Built =>
          /\ \A k \in KingdomKeys : mapData.kingdoms.val[k].empireId = "e-0"
          /\ mapData.empire.id = "e-0"
          /\ Range(mapData.empire.kingdomIds) = KingdomKeys
          /\ NoDuplicates(mapData.empire.kingdomIds)
    /\ (pc = "queried" /\ qMode = "kingdom" /\ IsRegion(qMode, qId)) =>
          /\ ~info.isNull /\ ~info.threw
          /\ info.parentId = JStr("e-0")

\* C10: getRegionInfo returns null, and no error, for every (mode, id) whose
\* id is not the id of a region of that mode in the map, at all four levels.
C10_UnknownIdIsNull ==
    (pc = "queried" /\ ~IsRegion(qMode, qId)) =>
        (info.isNull /\ ~info.threw)

----------------------------------------------------------------------------
(* 32-bit integers: a word is two 16-bit halves, hi * 65536 + lo *)

Half == 65536

W32(hi, lo) == [hi |-> hi, lo |-> lo]
Zero32 == W32(0, 0)

\* (a + b) mod 2^32
Add32(a, b) ==
    LET lo == a.lo + b.lo
    IN W32((a.hi + b.hi + lo \div Half) % Half, lo % Half)

\* (a - b) mod 2^32
Sub32(a, b) ==
    LET lo == a.lo - b.lo
        borrow == IF lo < 0 THEN 1 ELSE 0
    IN W32((a.hi - b.hi - borrow + Half) % Half, (lo + Half) % Half)

\* a << k, for 0 < k < 16
Shl32(a, k) ==
    LET lo == a.lo * 2^k
    IN W32((a.hi * 2^k + lo \div Half) % Half, lo % Half)

\* a >>> k, for 0 < k < 32
Shr32(a, k) ==
    IF k >= 16 THEN W32(0, a.hi \div 2^(k - 16))
    ELSE W32(a.hi \div 2^k, a.lo \div 2^k + (a.hi % 2^k) * 2^(16 - k))

\* Bitwise exclusive or of two naturals below 2^bits.
RECURSIVE XorBits(_, _, _)
XorBits(a, b, bits) ==
    IF bits = 0 THEN 0
    ELSE ((a + b) % 2) + 2 * XorBits(a \div 2, b \div 2, bits - 1)

\* a ^ b
Xor32(a, b) == W32(XorBits(a.hi, b.hi, 16), XorBits(a.lo, b.lo, 16))

\* Whether the word is negative when read as a signed 32-bit integer.
IsNegative32(a) == a.hi >= 32768

\* Math.abs of the signed value, as an unsigned word (2^31 for the minimum).
Abs32(a) == IF IsNegative32(a) THEN Sub32(Zero32, a) ELSE a

\* The unsigned value of the word modulo m, for m <= 65536.
Mod32(a, m) == ((a.hi % m) * (Half % m) + a.lo) % m

----------------------------------------------------------------------------
(* hashString and hashColor *)

AsciiFrom35 == "#$%&'()*+,-./0123456789:;<=>?@ABCDEFGHIJKLMNOPQRSTUVWXYZ["
AsciiFrom93 == "]^_"
AsciiFrom97 == "abcdefghijklmnopqrstuvwxyz{|}~"

\* The UTF-16 code unit of a one-character string (printable ASCII).
CharCode(c) ==
    IF c = " " THEN 32
    ELSE IF c = "!" THEN 33
    ELSE IF \E i \in 1..Len(AsciiFrom35) : SubSeq(AsciiFrom35, i, i) = c
    THEN 34 + (CHOOSE i \in 1..Len(AsciiFrom35) : SubSeq(AsciiFrom35, i, i) = c)
    ELSE IF \E i \in 1..Len(AsciiFrom93) : SubSeq(AsciiFrom93, i, i) = c
    THEN 92 + (CHOOSE i \in 1..Len(AsciiFrom93) : SubSeq(AsciiFrom93, i, i) = c)
    ELSE 96 + (CHOOSE i \in 1..Len(AsciiFrom97) : SubSeq(AsciiFrom97, i, i) = c)

\* value.charCodeAt(i - 1)
CharCodeAt(value, i) == CharCode(SubSeq(value, i, i))

\* Variant: the running hash is multiplied by 32 (the "- hash" is missing).
RECURSIVE HashFrom_Times32(_, _, _)
HashFrom_Times32(value, i, hash) ==
    IF i > Len(value) \/ hash.hi >= Half THEN hash
    ELSE HashFrom_Times32(value, i + 1,
             Add32(Shl32(hash, 5), W32(0, CharCodeAt(value, i))))

\* The loop of hashString from character i on:
\* hash = (hash << 5) - hash + value.charCodeAt(i); hash |= 0.
\* hash is a 32-bit word at the head of every iteration (its hi is below
\* 2^16; reading it there computes the word before the next step starts).
RECURSIVE HashFrom(_, _, _)
HashFrom(value, i, hash) ==
    IF i > Len(value) \/ hash.hi >= Half THEN hash
    ELSE HashFrom(value, i + 1,
             Add32(Sub32(Shl32(hash, 5), hash), W32(0, CharCodeAt(value, i))))

hashString(value) == HashFrom(value, 1, Zero32)

\* Variant: the sign is kept (hashString(id) % 360 without Math.abs); the
\* remainder of a negative number is negative.
hashColor_NoAbs(id) ==
    LET h == hashString(id)
        hue == Mod32(Abs32(h), 360)
    IN "hsl(" \o (IF IsNegative32(h) /\ hue # 0 THEN "-" ELSE "")
              \o DecimalString(hue) \o ", 55%, 55%)"

hashColor(id) ==
    LET hue == Mod32(Abs32(hashString(id)), 360)
    IN "hsl(" \o DecimalString(hue) \o ", 55%, 55%)"

----------------------------------------------------------------------------
(* hashColor applied to bounded ids *)

MaxSeedLen == 7

SeedChars == {"x", "f", "j", "t"}

\* The strings over SeedChars of length at most n.
RECURSIVE SeedStrings(_)
SeedStrings(n) ==
    IF n = 0 THEN {""}
    ELSE LET P == SeedStrings(n - 1)
         IN P \cup {str \o c : str \in P, c \in SeedChars}

MapIdle ==
    /\ width = 1 /\ height = 1 /\ overrides = NoOverrides /\ mapData = NoMap
    /\ qMode = "county" /\ qId = "" /\ info = NullInfo

InitHash ==
    /\ seedId \in SeedStrings(MaxSeedLen)
    /\ hashOut = ""
    /\ pc = "hash-init"
    /\ MapIdle /\ ColorIdle /\ ViewIdle /\ PageIdle

\* hashOut = hashColor(seedId)
HashColor ==
    /\ pc = "hash-init"
    /\ hashOut' = hashColor(seedId)
    /\ pc' = "hashed"
    /\ UNCHANGED <<seedId, mapVars, colorVars, viewVars, canvasVars, pageVars>>

NextHash == HashColor

SpecHash == InitHash /\ [][NextHash]_vars

\* h := 31 * h + charCode, wrapped to 32 bits after every step, computed on
\* the halves: the product of each half and the carry between them.
RECURSIVE PolyHash(_, _, _)
PolyHash(value, i, h) ==
    IF i > Len(value) \/ h.hi >= Half THEN h
    ELSE LET lo == 31 * h.lo + CharCodeAt(value, i)
         IN PolyHash(value, i + 1,
                W32((31 * h.hi + lo \div Half) % Half, lo % Half))

\* |h| mod 360 for the signed reading of a word: the word itself, or its
\* two's complement 2^32 - word when the high bit is set; the remainder is
\* taken half by half, so that no intermediate value exceeds 2^31 - 1.
HueOf(h) ==
    IF h.hi >= 32768
    THEN (((Half - 1 - h.hi) % 360) * (Half % 360) + (Half - h.lo)) % 360
    ELSE ((h.hi % 360) * (Half % 360) + h.lo) % 360

\* C13: hashColor(id) is hsl(|h| mod 360, 55%, 55%) for the hash h := 31*h +
\* charCode with signed 32-bit wraparound after every step, and the hue is an
\* integer in [0, 360), also when h is the minimum 32-bit value.
C13_HashColorHue ==
    pc = "hashed" =>
        /\ hashString(seedId) = PolyHash(seedId, 1, Zero32)
        /\ hashOut = "hsl(" \o DecimalString(HueOf(PolyHash(seedId, 1, Zero32)))
                            \o ", 55%, 55%)"
        /\ \E hue \in 0..359 :
              hashOut = "hsl(" \o DecimalString(hue) \o ", 55%, 55%)"

C13_Witness ==
    /\ pc = "hashed"
    /\ hashString(seedId) = W32(32768, 0)
    /\ hashOut = "hsl(128, 55%, 55%)"

----------------------------------------------------------------------------
(* parseOklch, formatOklch, deriveOklch *)

\* value.charAt(i - 1): "" past the end.
CharAt(value, i) == IF i >= 1 /\ i <= Len(value) THEN SubSeq(value, i, i) ELSE ""

IsDigit(c) == \E k \in 1..10 : Digits[k] = c
DigitValue(c) == (CHOOSE k \in 1..10 : Digits[k] = c) - 1

UpperLetters == "ABCDEFGHIJKLMNOPQRSTUVWXYZ"
LowerLetters == "abcdefghijklmnopqrstuvwxyz"

\* The letter in lower case (the i flag of OKLCH_REGEX).
LowerCase(c) ==
    IF \E k \in 1..26 : SubSeq(UpperLetters, k, k) = c
    THEN LET k == CHOOSE k \in 1..26 : SubSeq(UpperLetters, k, k) = c
         IN SubSeq(LowerLetters, k, k)
    ELSE c

\* Whether value reads keyword from position 1 on, letter case ignored.
RECURSIVE StartsWithIgnoreCase(_, _, _)
StartsWithIgnoreCase(value, keyword, i) ==
    IF i > Len(keyword) THEN TRUE
    ELSE /\ LowerCase(CharAt(value, i)) = SubSeq(keyword, i, i)
         /\ StartsWithIgnoreCase(value, keyword, i + 1)

\* \s* from position i: the position after the white space.
RECURSIVE SkipSpaces(_, _)
SkipSpaces(value, i) ==
    IF CharAt(value, i) = " " THEN SkipSpaces(value, i + 1) ELSE i

\* [0-9]* from position i: the position after the digits.
RECURSIVE SkipDigits(_, _)
SkipDigits(value, i) ==
    IF IsDigit(CharAt(value, i)) THEN SkipDigits(value, i + 1) ELSE i

\* [0-9]+(?:\.[0-9]+)? at position i: the position after the match, 0 when
\* there is no match.
NumberEnd(value, i) ==
    LET j == SkipDigits(value, i)
    IN IF j = i THEN 0
       ELSE IF CharAt(value, j) = "." /\ IsDigit(CharAt(value, j + 1))
       THEN SkipDigits(value, j + 1)
       ELSE j

\* value.match(OKLCH_REGEX): whether it matches, and the text of the groups
\* (alpha is match[4]: a string, or undefined when the group took no part).
NoMatch == [matched |-> FALSE, l |-> "", c |-> "", h |-> "", alpha |-> Undef]

OklchMatch(value) ==
    LET l0 == SkipSpaces(value, 7)
        l1 == NumberEnd(value, l0)
        c0 == SkipSpaces(value, l1 + 1)
        c1 == NumberEnd(value, c0)
        h0 == SkipSpaces(value, c1)
        h1 == NumberEnd(value, h0)
        s0 == SkipSpaces(value, h1)
        a0 == SkipSpaces(value, s0 + 1)
        a1 == NumberEnd(value, a0)
        a2 == IF CharAt(value, a1) = "%" THEN a1 + 1 ELSE a1
        tail(i) == LET k == SkipSpaces(value, i)
                   IN CharAt(value, k) = ")" /\ k = Len(value)
    IN IF ~(StartsWithIgnoreCase(value, "oklch", 1) /\ CharAt(value, 6) = "(")
       THEN NoMatch
       ELSE IF l1 = 0 \/ CharAt(value, l1) # "%" THEN NoMatch
       ELSE IF c0 = l1 + 1 \/ c1 = 0 THEN NoMatch
       ELSE IF h0 = c1 \/ h1 = 0 THEN NoMatch
       ELSE IF CharAt(value, s0) = "/"
       THEN IF a1 # 0 /\ tail(a2)
            THEN [matched |-> TRUE, l |-> SubSeq(value, l0, l1 - 1),
                  c |-> SubSeq(value, c0, c1 - 1),
                  h |-> SubSeq(value, h0, h1 - 1),
                  alpha |-> JStr(SubSeq(value, a0, a2 - 1))]
            ELSE NoMatch
       ELSE IF tail(h1)
       THEN [matched |-> TRUE, l |-> SubSeq(value, l0, l1 - 1),
             c |-> SubSeq(value, c0, c1 - 1),
             h |-> SubSeq(value, h0, h1 - 1), alpha |-> Undef]
       ELSE NoMatch

\* The natural number a run of digits denotes.
RECURSIVE DigitsValue(_, _, _)
DigitsValue(text, i, acc) ==
    IF i > Len(text) THEN acc
    ELSE DigitsValue(text, i + 1, 10 * acc + DigitValue(CharAt(text, i)))

\* The position of the "." in text, Len(text) + 1 when there is none.
RECURSIVE DotPosition(_, _)
DotPosition(text, i) ==
    IF i > Len(text) \/ CharAt(text, i) = "." THEN i
    ELSE DotPosition(text, i + 1)

\* A number of the colour arithmetic: (u + f / (2^32 - 1)) units, the unit
\* being 1/100 for l and h and 1/1000 for c; f is a word below 2^32 - 1.
Num(u, f) == [u |-> u, f |-> f]

\* Number(text) in units of 10^-places, for a text matched by
\* [0-9]+(?:\.[0-9]+)? with at most `places` digits after the point.
NumberUnits(text, places) ==
    LET dot == DotPosition(text, 1)
        whole == DigitsValue(SubSeq(text, 1, dot - 1), 1, 0)
        frac == SubSeq(text, dot + 1, Len(text))
    IN Num(whole * 10^places + DigitsValue(frac, 1, 0) * 10^(places - Len(frac)),
           Zero32)

\* What parseOklch returns: null, or an OklchColor.
NullOklch ==
    [isNull |-> TRUE, l |-> Num(0, Zero32), c |-> Num(0, Zero32),
     h |-> Num(0, Zero32), alpha |-> Undef]

parseOklch(value) ==
    LET match == OklchMatch(value)
    IN IF ~match.matched THEN NullOklch
       ELSE [isNull |-> FALSE, l |-> NumberUnits(match.l, 2),
             c |-> NumberUnits(match.c, 3), h |-> NumberUnits(match.h, 2),
             alpha |-> match.alpha]

\* n.toFixed(places) for n >= 0: the units rounded to the nearest whole unit
\* (f / (2^32 - 1) is never one half, 2^32 - 1 being odd), then the decimal
\* text with `places` digits after the point.
RoundedUnits(n) == n.u + (IF n.f.hi >= 32768 THEN 1 ELSE 0)

RECURSIVE PadZeros(_, _)
PadZeros(text, places) ==
    IF Len(text) >= places THEN text ELSE PadZeros("0" \o text, places)

ToFixed(n, places) ==
    LET units == RoundedUnits(n)
    IN DecimalString(units \div 10^places) \o "."
         \o PadZeros(DecimalString(units % 10^places), places)

formatOklch(color) ==
    LET alpha == IF color.alpha.t = "string" /\ color.alpha.s # ""
                 THEN " / " \o color.alpha.s
                 ELSE ""
    IN "oklch(" \o ToFixed(color.l, 2) \o "% " \o ToFixed(color.c, 3) \o " "
         \o ToFixed(color.h, 2) \o alpha \o ")"

\* 0x9e3779b9
Golden == W32(40503, 31161)

\* (salt * 0x9e3779b9) as the 32-bit operand of ^.
RECURSIVE SaltWord(_)
SaltWord(salt) == IF salt = 0 THEN Zero32 ELSE Add32(SaltWord(salt - 1), Golden)

\* The word x of randomFromHash; the function returns x / 4294967295.
randomFromHash(hash, salt) ==
    LET x0 == Xor32(hash, SaltWord(salt))
        x1 == Xor32(x0, Shl32(x0, 13))
        x2 == Xor32(x1, Shr32(x1, 17))
    IN Xor32(x2, Shl32(x2, 5))

\* span * x / (2^32 - 1) as a Num, for 0 < span < 2^15: with
\* span * x = Q * 2^32 + R and 2^32 = (2^32 - 1) + 1, the quotient is Q and the
\* remainder Q + R, less one modulus when Q + R reaches it.
ScaledRandom(span, x) ==
    LET low == span * x.lo
        mid == span * x.hi + low \div Half
        Q == mid \div Half
        lo == (low % Half) + Q
        hi == (mid % Half) + lo \div Half
    IN IF hi >= Half
       THEN Num(Q + 1, W32(0, (lo % Half) + 1))
       ELSE IF hi = Half - 1 /\ lo % Half = Half - 1
       THEN Num(Q + 1, Zero32)
       ELSE Num(Q, W32(hi, lo % Half))

\* base + (x / (2^32 - 1) * 2 - 1) * amplitude, base and amplitude in whole
\* units (what parseOklch returns is in whole units).
Perturb(base, amplitude, x) ==
    LET delta == ScaledRandom(2 * amplitude, x)
    IN Num(base.u - amplitude + delta.u, delta.f)

\* clamp(value, 0, max) and Math.max(0, value), max in whole units.
ClampUnits(n, max) ==
    IF n.u < 0 THEN Num(0, Zero32)
    ELSE IF n.u >= max THEN Num(max, Zero32)
    ELSE n
MaxZero(n) == IF n.u < 0 THEN Num(0, Zero32) ELSE n

\* ((value % 360) + 360) % 360, in hundredths.
Mod360(n) == Num(n.u % 36000, n.f)

\* deltaL = (r1 * 2 - 1) * 12, deltaC = (r2 * 2 - 1) * 0.045,
\* deltaH = (r3 * 2 - 1) * 24.
deriveOklch(base, seed) ==
    LET hash == hashString(seed)
    IN [isNull |-> FALSE,
        l |-> ClampUnits(Perturb(base.l, 1200, randomFromHash(hash, 1)), 10000),
        c |-> MaxZero(Perturb(base.c, 45, randomFromHash(hash, 2))),
        h |-> Mod360(Perturb(base.h, 2400, randomFromHash(hash, 3))),
        alpha |-> base.alpha]

----------------------------------------------------------------------------
(* getRegionColor *)

\* The mode of the parent level; "" stands for null.
ParentModeOf(mode) ==
    CASE mode = "county" -> "duchy"
      [] mode = "duchy" -> "kingdom"
      [] mode = "kingdom" -> "empire"
      [] OTHER -> ""

\* mapData.counties[regionId]?.duchyId ?? null, and the like for a duchy and
\* a kingdom: an inherited property has no duchyId.
ParentIdIn(md, mode, regionId) ==
    IF mode \in {"county", "duchy", "kingdom"}
          /\ LookupKind(TableOf(md, mode), regionId) = "own"
    THEN LET r == TableOf(md, mode).val[regionId]
         IN CASE mode = "county" -> JStr(r.duchyId)
              [] mode = "duchy" -> JStr(r.kingdomId)
              [] mode = "kingdom" -> JStr(r.empireId)
    ELSE Null

\* override?.color is truthy
HasColor(override) ==
    override.shape = "object" /\ override.color.t = "string"
        /\ override.color.s # ""

RECURSIVE getRegionColor(_, _, _, _)

\* Variant: the colour derived from the parent comes before the region's own.
getRegionColor_ParentFirst(mode, regionId, ov, md) ==
    LET override == getRegionOverride(mode, regionId, ov)
        parentId == ParentIdIn(md, mode, regionId)
        parsed == parseOklch(getRegionColor(ParentModeOf(mode), parentId.s,
                                            ov, md))
    IN IF ParentModeOf(mode) # "" /\ parentId.t = "string" /\ parentId.s # ""
          /\ ~parsed.isNull
       THEN formatOklch(deriveOklch(parsed, regionId))
       ELSE IF HasColor(override) THEN override.color.s
       ELSE hashColor(regionId)

\* md is the mapData argument; NoMap, whose tables are empty, stands for a
\* call without mapData (no parent is found either way).
getRegionColor(mode, regionId, ov, md) ==
    LET override == getRegionOverride(mode, regionId, ov)
        parentId == ParentIdIn(md, mode, regionId)
        parsed == parseOklch(getRegionColor(ParentModeOf(mode), parentId.s,
                                            ov, md))
    IN IF HasColor(override) THEN override.color.s
       ELSE IF ParentModeOf(mode) # "" /\ parentId.t = "string"
               /\ parentId.s # "" /\ ~parsed.isNull
       THEN formatOklch(deriveOklch(parsed, regionId))
       ELSE hashColor(regionId)

----------------------------------------------------------------------------
(* getRegionColor on built maps *)

MaxColorW == 3
MaxColorOverrides == 3

ColorMeta(color) == [EmptyMeta EXCEPT !.color = JStr(color)]

BaseColor == "oklch(60% 0.1 200)"

\* Colour and parent overrides along the chain c-0-0, d-0-0, k-0-0, e-0, and
\* for the duchies a parent override of c-0-0 creates ("" and the orphan).
ColorEntryPool ==
    {Entry("county", "c-0-0", m) :
        m \in {ColorMeta("oklch(70% 0.2 30)"), ColorMeta(""),
               ParentMeta(JStr("")), ParentMeta(Null)}}
    \cup {Entry("duchy", "d-0-0", ColorMeta(c)) :
        c \in {BaseColor, "OKLCH( 2.5%  0.01 350.75 / 50% )",
               "hsl(200, 50%, 50%)"}}
    \cup {Entry("duchy", "", ColorMeta(BaseColor)),
          Entry("duchy", "d-orphan-c-0-0", ColorMeta("oklch(99.5% 0.3 5/0.5)"))}
    \cup {Entry("kingdom", "k-0-0", ColorMeta(c)) :
        c \in {"oklch(40% 0.05 10)", "oklch(60 0.1 200)"}}
    \cup {Entry("empire", EMPIRE_ID, ColorMeta(c)) :
        c \in {"oklch(50% 0.2 100)", "red"}}

\* Sets of at most n entries of pool, no two for the same region.
RECURSIVE EntrySetsFrom(_, _)
EntrySetsFrom(pool, n) ==
    IF n = 0 THEN {{}}
    ELSE LET P == EntrySetsFrom(pool, n - 1)
         IN P \cup UNION {{S \cup {e} :
                              e \in {f \in pool :
                                        \A g \in S : Slot(g) # Slot(f)}} :
                          S \in P}

InitColor ==
    /\ width \in 2..MaxColorW
    /\ height = 1
    /\ overrides \in {MkOverrides(S) :
                         S \in EntrySetsFrom(ColorEntryPool, MaxColorOverrides)}
    /\ mapData = NoMap
    /\ pc = "init"
    /\ qMode = "county"
    /\ qId = ""
    /\ info = NullInfo
    /\ HashIdle /\ ColorIdle /\ ViewIdle /\ PageIdle

\* colorOut = getRegionColor(mode, regionId, overrides, mapData), or
\* getRegionColor(mode, regionId, overrides) when withMap is false.
RegionColor(mode, regionId, withMap) ==
    /\ pc = "built"
    /\ ~mapData.threw
    /\ qMode' = mode
    /\ qId' = regionId
    /\ colorOut' = getRegionColor(mode, regionId, overrides,
                                  IF withMap THEN mapData ELSE NoMap)
    /\ pc' = IF withMap THEN "colored" ELSE "colored-nomap"
    /\ UNCHANGED <<width, height, overrides, mapData, info>>
    /\ UNCHANGED <<hashVars, viewVars, canvasVars, pageVars>>

NextColor ==
    \/ Build
    \/ \E mode \in Modes : \E regionId \in QueryIds(mapData, mode) :
          \E withMap \in BOOLEAN : RegionColor(mode, regionId, withMap)

SpecColor == InitColor /\ [][NextColor]_vars

----------------------------------------------------------------------------
(* Properties of getRegionColor *)

LevelOf(mode) ==
    CASE mode = "county" -> 1
      [] mode = "duchy" -> 2
      [] mode = "kingdom" -> 3
      [] OTHER -> 4

\* Whether the override of the region carries a non-empty color.
ExplicitColor(ov, mode, regionId) ==
    LET m == getRegionOverride(mode, regionId, ov)
    IN m.shape = "object" /\ m.color.t = "string" /\ Len(m.color.s) > 0

\* The level of the nearest region with an explicit color on the chain of
\* parents the map records, starting at the region itself; 4 when the chain
\* ends without one.
RECURSIVE NearestColoredLevel(_, _, _, _)
NearestColoredLevel(ov, md, mode, regionId) ==
    IF ExplicitColor(ov, mode, regionId) \/ mode = "empire" THEN LevelOf(mode)
    ELSE IF ParentIdIn(md, mode, regionId).t # "string" THEN 4
    ELSE NearestColoredLevel(ov, md, ParentModeOf(mode),
                             ParentIdIn(md, mode, regionId).s)

\* ov without the entries of the levels above `level`.
StripAbove(ov, level) ==
    [counties |-> ov.counties,
     duchies |-> IF level < 2 THEN NoTable ELSE ov.duchies,
     kingdoms |-> IF level < 3 THEN NoTable ELSE ov.kingdoms,
     empire |-> IF level < 4 THEN NoMeta ELSE ov.empire]

\* ov with another color in every entry of the levels above `level`.
Recolor(m, color) ==
    IF m.shape = "object" THEN [m EXCEPT !.color = JStr(color)] ELSE m
RecolorTable(t, color) ==
    [present |-> t.present,
     entries |-> [id \in DOMAIN t.entries |-> Recolor(t.entries[id], color)]]
RecolorAbove(ov, level, color) ==
    [counties |-> ov.counties,
     duchies |-> IF level < 2 THEN RecolorTable(ov.duchies, color)
                 ELSE ov.duchies,
     kingdoms |-> IF level < 3 THEN RecolorTable(ov.kingdoms, color)
                  ELSE ov.kingdoms,
     empire |-> IF level < 4 THEN Recolor(ov.empire, color) ELSE ov.empire]

\* C11: a region whose override has a non-empty color gets exactly that color,
\* whatever its parents are; for a region without one, the entries of the
\* levels above the nearest ancestor with an explicit color (removed, or given
\* another color) do not change the result.
C11_OwnColorAndNearestAncestor ==
    pc \in {"colored", "colored-nomap"} =>
        LET own == getRegionOverride(qMode, qId, overrides)
            md == IF pc = "colored" THEN mapData ELSE NoMap
            level == NearestColoredLevel(overrides, md, qMode, qId)
        IN /\ ExplicitColor(overrides, qMode, qId) => colorOut = own.color.s
           /\ colorOut = getRegionColor(qMode, qId,
                                        StripAbove(overrides, level), md)
           /\ colorOut = getRegionColor(qMode, qId,
                             RecolorAbove(overrides, level, "oklch(1% 0 0)"),
                             md)

\* A county without a color under a colored duchy under a colored kingdom: the
\* county's color is derived from the duchy's.
C11_Witness ==
    /\ pc = "colored" /\ qMode = "county" /\ qId = "c-0-1"
    /\ ~ExplicitColor(overrides, "county", "c-0-1")
    /\ mapData.counties.val["c-0-1"].duchyId = "d-0-0"
    /\ ExplicitColor(overrides, "duchy", "d-0-0")
    /\ ExplicitColor(overrides, "kingdom", "k-0-0")
    /\ parseOklch(getRegionOverride("duchy", "d-0-0", overrides).color.s).isNull
         = FALSE
    /\ colorOut # hashColor("c-0-1")

\* The duchy the map records for a county, and the color of its override.
DuchyOf(countyId) == mapData.counties.val[countyId].duchyId
DuchyColor(countyId) ==
    getRegionOverride("duchy", DuchyOf(countyId), overrides).color.s

\* A county of the map, queried with the map, that has no explicit color and
\* whose duchy has an explicit color OKLCH_REGEX matches.
CountyUnderOklchDuchy ==
    /\ pc = "colored" /\ qMode = "county"
    /\ LookupKind(mapData.counties, qId) = "own"
    /\ ~ExplicitColor(overrides, "county", qId)
    /\ ExplicitColor(overrides, "duchy", DuchyOf(qId))
    /\ ~parseOklch(DuchyColor(qId)).isNull

\* C12: a county without an explicit color whose duchy has an explicit oklch
\* color gets the perturbation of the duchy's color seeded by the county's id,
\* not the hash fallback.
C12_CountyDerivedFromDuchy ==
    CountyUnderOklchDuchy =>
        /\ colorOut = formatOklch(deriveOklch(parseOklch(DuchyColor(qId)), qId))
        /\ colorOut # hashColor(qId)

----------------------------------------------------------------------------
(* GridMap: the viewport and the pointer handlers *)

\* Rational arithmetic; every result is in lowest terms with d > 0. The
\* numbers of the component are JavaScript doubles; the model computes with
\* the exact values (0.9 is 9/10, 1.1 is 11/10, 0.6 is 3/5).
RECURSIVE Gcd(_, _)
Gcd(a, b) == IF b = 0 THEN a ELSE Gcd(b, a % b)

Abs(n) == IF n < 0 THEN -n ELSE n

Reduced(n, d) ==
    LET g == Gcd(Abs(n), Abs(d))
        sign == IF d < 0 THEN -1 ELSE 1
    IN Rat(sign * (n \div g), sign * (d \div g))

FromInt(n) == Rat(n, 1)

RatAdd(a, b) ==
    LET g == Gcd(a.d, b.d)
    IN Reduced(a.n * (b.d \div g) + b.n * (a.d \div g), (a.d \div g) * b.d)

RatNeg(a) == Rat(-a.n, a.d)
RatSub(a, b) == RatAdd(a, RatNeg(b))

RatMul(a, b) ==
    LET g1 == Gcd(Abs(a.n), b.d)
        g2 == Gcd(Abs(b.n), a.d)
    IN IF a.n = 0 \/ b.n = 0 THEN Rat(0, 1)
       ELSE Reduced((a.n \div g1) * (b.n \div g2), (a.d \div g2) * (b.d \div g1))

\* a / b, b # 0
RatDiv(a, b) == RatMul(a, Reduced(b.d, b.n))

RatLess(a, b) == RatSub(a, b).n < 0
RatMin(a, b) == IF RatLess(b, a) THEN b ELSE a
RatMax(a, b) == IF RatLess(a, b) THEN b ELSE a

\* Math.floor(a)
RatFloor(a) == a.n \div a.d

\* props.tileSize (its default) and the map of MapPage: createWorldMap(8, 8, ...)
TileSize == 20
GridWidth == 8
GridHeight == 8

\* canvas.getBoundingClientRect()
CanvasRect == [left |-> 10, top |-> 0]

\* Variant: no lower bound (Math.min(3, value)).
clampScale_NoLowerBound(value) == RatMin(Rat(3, 1), value)

\* Math.min(3, Math.max(0.6, value))
clampScale(value) == RatMin(Rat(3, 1), RatMax(Rat(3, 5), value))

\* The viewport: scale.value, offsetX.value, offsetY.value.
View(s, ox, oy) == [scale |-> s, offsetX |-> ox, offsetY |-> oy]

\* toWorld(screenX, screenY) in the viewport v; screenX, screenY integers.
toWorld(v, screenX, screenY) ==
    [x |-> RatDiv(RatSub(FromInt(screenX), v.offsetX), v.scale),
     y |-> RatDiv(RatSub(FromInt(screenY), v.offsetY), v.scale)]

\* Variant: the scale changes and the offset stays.
handleWheel_KeepOffset(v, clientX, clientY, deltaY) ==
    LET zoomDirection == IF deltaY > 0 THEN Rat(9, 10) ELSE Rat(11, 10)
    IN View(clampScale(RatMul(v.scale, zoomDirection)), v.offsetX, v.offsetY)

\* The viewport handleWheel leaves.
handleWheel(v, clientX, clientY, deltaY) ==
    LET cursorX == clientX - CanvasRect.left
        cursorY == clientY - CanvasRect.top
        zoomDirection == IF deltaY > 0 THEN Rat(9, 10) ELSE Rat(11, 10)
        before == toWorld(v, cursorX, cursorY)
        nextScale == clampScale(RatMul(v.scale, zoomDirection))
    IN View(nextScale,
            RatSub(FromInt(cursorX), RatMul(before.x, nextScale)),
            RatSub(FromInt(cursorY), RatMul(before.y, nextScale)))

\* Variant: the difference is added to the current offset.
handlePointerMove_FromCurrent(v, origin, start, clientX, clientY) ==
    View(v.scale,
         RatAdd(v.offsetX, FromInt(clientX - start.x)),
         RatAdd(v.offsetY, FromInt(clientY - start.y)))

\* The viewport handlePointerMove leaves while a drag is active; origin and
\* start are dragOrigin.value and dragStart.value.
handlePointerMove(v, origin, start, clientX, clientY) ==
    View(v.scale,
         RatAdd(origin.x, FromInt(clientX - start.x)),
         RatAdd(origin.y, FromInt(clientY - start.y)))

\* Variant: the tile index is x * width + y.
handleClick_Transposed(v, md, mode, clientX, clientY) ==
    LET world == toWorld(v, clientX - CanvasRect.left, clientY - CanvasRect.top)
        x == RatFloor(RatDiv(world.x, FromInt(TileSize)))
        y == RatFloor(RatDiv(world.y, FromInt(TileSize)))
    IN IF x < 0 \/ y < 0 \/ x >= md.width \/ y >= md.height THEN <<>>
       ELSE <<getRegionId(md.tiles[x * md.width + y + 1], mode)>>

\* What handleClick emits: <<regionId>>, or <<>> when it returns early.
handleClick(v, md, mode, clientX, clientY) ==
    LET world == toWorld(v, clientX - CanvasRect.left, clientY - CanvasRect.top)
        x == RatFloor(RatDiv(world.x, FromInt(TileSize)))
        y == RatFloor(RatDiv(world.y, FromInt(TileSize)))
    IN IF x < 0 \/ y < 0 \/ x >= md.width \/ y >= md.height THEN <<>>
       ELSE <<getRegionId(md.tiles[y * md.width + x + 1], mode)>>

MaxEvents == 3

\* Scales the viewport starts from: 1 at mount; 0.6 and 3 are the scales
\* five wheel steps out and twelve wheel steps in lead to with the cursor at
\* the canvas origin, where the offset stays (0, 0).
StartScales == {Rat(1, 1), Rat(3, 5), Rat(3, 1)}

\* clientX, clientY of the pointer events, and deltaY of the wheel events.
ClientPoints == {<<15, 5>>, <<180, 45>>}
WheelDeltas == {-100, 100}

Event(type, p, deltaY) ==
    [type |-> type, x |-> p[1], y |-> p[2], deltaY |-> deltaY,
     n |-> event.n + 1, pointerId |-> 0]

\* A pointer event: event.pointerId names the pointer.
PointerEvent(type, p, pointerId) ==
    [Event(type, p, 0) EXCEPT !.pointerId = pointerId]

InitView ==
    /\ width = GridWidth
    /\ height = GridHeight
    /\ overrides = NoOverrides
    /\ mapData = createWorldMap(GridWidth, GridHeight, NoOverrides)
    /\ pc = "view"
    /\ qMode \in Modes
    /\ qId = ""
    /\ info = NullInfo
    /\ scale \in StartScales
    /\ offsetX = Rat(0, 1) /\ offsetY = Rat(0, 1)
    /\ isDragging = FALSE
    /\ dragStart = [x |-> 0, y |-> 0]
    /\ dragOrigin = [x |-> Rat(0, 1), y |-> Rat(0, 1)]
    /\ emitted = <<>>
    /\ event = [type |-> "none", x |-> 0, y |-> 0, deltaY |-> 0, n |-> 0,
                pointerId |-> 0]
    /\ capture = {}
    /\ dragWorld = [x |-> Rat(0, 1), y |-> Rat(0, 1)]
    /\ boundary = <<>>
    /\ HashIdle /\ ColorIdle /\ PageIdle

ViewReady == pc = "view" /\ event.n < MaxEvents

\* @wheel="handleWheel"
Wheel(p, deltaY) ==
    /\ ViewReady
    /\ LET v == handleWheel(View(scale, offsetX, offsetY), p[1], p[2], deltaY)
       IN scale' = v.scale /\ offsetX' = v.offsetX /\ offsetY' = v.offsetY
    /\ event' = Event("wheel", p, deltaY)
    /\ UNCHANGED <<isDragging, dragStart, dragOrigin, emitted, canvasVars>>
    /\ UNCHANGED <<mapVars, pc, hashVars, colorVars, pageVars>>

\* @pointerdown="handlePointerDown"; canvas.setPointerCapture(event.pointerId)
PointerDown(p, pointerId) ==
    /\ ViewReady
    /\ isDragging' = TRUE
    /\ dragStart' = [x |-> p[1], y |-> p[2]]
    /\ dragOrigin' = [x |-> offsetX, y |-> offsetY]
    /\ capture' = capture \cup {pointerId}
    /\ dragWorld' = toWorld(View(scale, offsetX, offsetY),
                            p[1] - CanvasRect.left, p[2] - CanvasRect.top)
    /\ event' = PointerEvent("pointerdown", p, pointerId)
    /\ UNCHANGED <<scale, offsetX, offsetY, emitted, boundary>>
    /\ UNCHANGED <<mapVars, pc, hashVars, colorVars, pageVars>>

\* @pointermove="handlePointerMove"
PointerMove(p) ==
    /\ ViewReady
    /\ IF isDragging
       THEN LET v == handlePointerMove(View(scale, offsetX, offsetY),
                                       dragOrigin, dragStart, p[1], p[2])
            IN scale' = v.scale /\ offsetX' = v.offsetX /\ offsetY' = v.offsetY
       ELSE UNCHANGED <<scale, offsetX, offsetY>>
    /\ event' = Event("pointermove", p, 0)
    /\ UNCHANGED <<isDragging, dragStart, dragOrigin, emitted, canvasVars>>
    /\ UNCHANGED <<mapVars, pc, hashVars, colorVars, pageVars>>

\* Variant: pointerleave is not bound to handlePointerUp.
PointerUp_LeaveUnbound(type, p, pointerId) ==
    /\ ViewReady
    /\ isDragging' = (type = "pointerleave" /\ isDragging)
    /\ capture' = IF type = "pointerleave" THEN capture
                  ELSE capture \ {pointerId}
    /\ event' = PointerEvent(type, p, pointerId)
    /\ UNCHANGED <<scale, offsetX, offsetY, dragStart, dragOrigin, emitted,
                   dragWorld, boundary>>
    /\ UNCHANGED <<mapVars, pc, hashVars, colorVars, pageVars>>

\* @pointerup="handlePointerUp" and @pointerleave="handlePointerUp";
\* canvas.releasePointerCapture(event.pointerId)
PointerUp(type, p, pointerId) ==
    /\ ViewReady
    /\ isDragging' = FALSE
    /\ capture' = capture \ {pointerId}
    /\ event' = PointerEvent(type, p, pointerId)
    /\ UNCHANGED <<scale, offsetX, offsetY, dragStart, dragOrigin, emitted,
                   dragWorld, boundary>>
    /\ UNCHANGED <<mapVars, pc, hashVars, colorVars, pageVars>>

\* @click="handleClick"
Click(p) ==
    /\ ViewReady
    /\ emitted' = emitted \o handleClick(View(scale, offsetX, offsetY),
                                         mapData, qMode, p[1], p[2])
    /\ event' = Event("click", p, 0)
    /\ UNCHANGED <<scale, offsetX, offsetY, isDragging, dragStart, dragOrigin,
                   canvasVars>>
    /\ UNCHANGED <<mapVars, pc, hashVars, colorVars, pageVars>>

\* The pointers on the canvas: a pointer event carries a position and the
\* id of its pointer.
Pointers == {[pointerId |-> 1, at |-> <<15, 5>>],
             [pointerId |-> 2, at |-> <<180, 45>>]}

NextView ==
    \/ \E p \in ClientPoints : \E deltaY \in WheelDeltas : Wheel(p, deltaY)
    \/ \E e \in Pointers : PointerDown(e.at, e.pointerId)
    \/ \E p \in ClientPoints : PointerMove(p)
    \/ \E e \in Pointers :
          \E type \in {"pointerup", "pointerleave"} :
             PointerUp(type, e.at, e.pointerId)
    \/ \E p \in ClientPoints : Click(p)

SpecView == InitView /\ [][NextView]_vars

----------------------------------------------------------------------------
(* Properties of the viewport *)

\* C14: in every state the events lead to, the scale lies in [0.6, 3.0].
C14_ScaleInRange ==
    pc = "view" => ~RatLess(scale, Rat(3, 5)) /\ ~RatLess(Rat(3, 1), scale)

\* A wheel step out whose requested scale was below 0.6.
C14_Witness ==
    /\ pc = "view" /\ event.type = "wheel" /\ event.deltaY > 0
    /\ scale = Rat(3, 5)

\* The world point under the screen point of event ev in the viewport v.
UnderPointer(v, ev) ==
    toWorld(v, ev.x - CanvasRect.left, ev.y - CanvasRect.top)

\* C15: over every wheel step, clamped or not, the world point under the
\* cursor after the step equals the world point under it before the step.
C15_ZoomKeepsWorldPoint ==
    [][event'.type = "wheel" /\ event'.n = event.n + 1
          => UnderPointer(View(scale', offsetX', offsetY'), event')
                = UnderPointer(View(scale, offsetX, offsetY), event')]_vars

\* A wheel step in from scale 2.97 and offset (-16.45, -3.9), clamped at 3.
C15_Witness ==
    /\ pc = "view" /\ event.type = "wheel" /\ event.deltaY < 0
    /\ scale = Rat(3, 1) /\ offsetX = Rat(-55, 3)

\* C16: a pointer-move during a drag sets the offset to the offset captured
\* at pointer-down plus (pointer position - pointer-down position) and keeps
\* the scale; a pointer-move outside a drag changes neither. The captured
\* offset and position are those of the latest pointer-down: that step stores
\* them and no other step changes them.
C16_DragAddsDeltaToCapturedOffset ==
    [][event'.n = event.n + 1
          => /\ (event'.type = "pointermove" /\ isDragging)
                   => /\ scale' = scale
                      /\ offsetX' = RatAdd(dragOrigin.x,
                                           FromInt(event'.x - dragStart.x))
                      /\ offsetY' = RatAdd(dragOrigin.y,
                                           FromInt(event'.y - dragStart.y))
             /\ (event'.type = "pointermove" /\ ~isDragging)
                   => UNCHANGED <<scale, offsetX, offsetY>>
             /\ (event'.type = "pointerdown")
                   => /\ isDragging'
                      /\ dragStart' = [x |-> event'.x, y |-> event'.y]
                      /\ dragOrigin' = [x |-> offsetX, y |-> offsetY]
             /\ (event'.type # "pointerdown")
                   => UNCHANGED <<dragStart, dragOrigin>>]_vars

\* A drag from (15, 5) to (180, 45) that started at offset (-17, -4.5).
C16_Witness ==
    /\ pc = "view" /\ event.type = "pointermove" /\ isDragging
    /\ dragOrigin = [x |-> Rat(-17, 1), y |-> Rat(-9, 2)]
    /\ offsetX = Rat(148, 1) /\ offsetY = Rat(71, 2)

\* The tile coordinate under the screen point of event ev.
TileCoordinate(v, ev) ==
    LET world == UnderPointer(v, ev)
    IN [x |-> RatFloor(RatDiv(world.x, FromInt(TileSize))),
        y |-> RatFloor(RatDiv(world.y, FromInt(TileSize)))]

OnGrid(md, at) ==
    at.x >= 0 /\ at.y >= 0 /\ at.x < md.width /\ at.y < md.height

\* The tile of md whose coordinate is at.
TileOn(md, at) == CHOOSE t \in Range(md.tiles) : t.x = at.x /\ t.y = at.y

\* C17: a click whose tile coordinate is off the grid emits nothing and
\* changes no state; a click on the grid emits exactly one select event, with
\* the region id at the current level of the tile at that coordinate. At
\* county level the world pixel (5, 5) reports c-0-0.
C17_ClickReportsRegionOfTile ==
    [][event'.type = "click" /\ event'.n = event.n + 1
          => LET v == View(scale, offsetX, offsetY)
                 at == TileCoordinate(v, event')
             IN /\ ~OnGrid(mapData, at)
                      => UNCHANGED <<emitted, scale, offsetX, offsetY,
                                     isDragging, dragStart, dragOrigin,
                                     mapVars>>
                /\ OnGrid(mapData, at)
                      => emitted' = Append(emitted,
                                           getRegionId(TileOn(mapData, at),
                                                       qMode))
                /\ (qMode = "county" /\ UnderPointer(v, event')
                                            = [x |-> Rat(5, 1), y |-> Rat(5, 1)])
                      => emitted' = Append(emitted, "c-0-0")]_vars

\* The click at world pixel (5, 5) at county level, after a click off the grid.
C17_Witness ==
    /\ pc = "view" /\ qMode = "county" /\ event.type = "click" /\ event.n = 2
    /\ UnderPointer(View(scale, offsetX, offsetY), event)
          = [x |-> Rat(5, 1), y |-> Rat(5, 1)]
    /\ emitted = <<"c-0-0">>

----------------------------------------------------------------------------
(* MapPage: the edit form and the exported overrides *)

\* String.prototype.trim on the white space the inputs contain.
IsSpace(c) == c \in {" ", "\t", "\n", "\r"}

RECURSIVE TrimStart(_)
TrimStart(s) ==
    IF Len(s) > 0 /\ IsSpace(CharAt(s, 1))
    THEN TrimStart(SubSeq(s, 2, Len(s)))
    ELSE s

RECURSIVE TrimEnd(_)
TrimEnd(s) ==
    IF Len(s) > 0 /\ IsSpace(CharAt(s, Len(s)))
    THEN TrimEnd(SubSeq(s, 1, Len(s) - 1))
    ELSE s

Trim(s) == TrimEnd(TrimStart(s))

\* value?.trim() of a string | null | undefined value.
TrimValue(v) == IF v.t = "string" THEN JStr(Trim(v.s)) ELSE Undef

\* Truthiness of a string | null | undefined value.
Truthy(v) == v.t = "string" /\ v.s # ""

\* Variant: a parentId key counts only when its value is not null.
hasOverrideFields_NullParentIsAbsent(meta) ==
    IF Falsy(meta) THEN FALSE
    ELSE IF Truthy(TrimValue(meta.name)) THEN TRUE
    ELSE IF Truthy(TrimValue(meta.color)) THEN TRUE
    ELSE HasParentKey(meta) /\ meta.parentId.t = "string"

hasOverrideFields(meta) ==
    IF Falsy(meta) THEN FALSE
    ELSE IF Truthy(TrimValue(meta.name)) THEN TRUE
    ELSE IF Truthy(TrimValue(meta.color)) THEN TRUE
    ELSE HasParentKey(meta)

\* null where the code has MapMode | null
getParentMode(mode) ==
    CASE mode = "county" -> "duchy"
      [] mode = "duchy" -> "kingdom"
      [] mode = "kingdom" -> "empire"
      [] OTHER -> "null"

getModeKey(mode) ==
    CASE mode = "county" -> "counties"
      [] mode = "duchy" -> "duchies"
      [] mode = "kingdom" -> "kingdoms"
      [] OTHER -> "counties"

\* regionId "" stands for both null and the empty id: the page tests the
\* selection for truthiness only.
getOverride(ov, mode, regionId) ==
    IF regionId = "" THEN NoMeta
    ELSE IF mode = "empire" THEN ov.empire
    ELSE TableGet(ov[getModeKey(mode)], regionId)

\* delete collection[regionId]; an emptied collection is deleted too
TableDelete(table, regionId) ==
    LET rest == DOMAIN table.entries \ {regionId}
    IN IF rest = {} THEN NoTable
       ELSE [present |-> TRUE, entries |-> [id \in rest |-> table.entries[id]]]

\* Variant: an emptied collection stays in the overrides object.
setOverride_KeepEmptyTable(ov, mode, regionId, meta) ==
    IF mode = "empire"
    THEN IF ~Falsy(meta) /\ hasOverrideFields(meta)
         THEN [ov EXCEPT !.empire = meta]
         ELSE [ov EXCEPT !.empire = NoMeta]
    ELSE LET key == getModeKey(mode)
             collection == ov[key]
             rest == DOMAIN collection.entries \ {regionId}
         IN IF ~Falsy(meta) /\ hasOverrideFields(meta)
            THEN [ov EXCEPT ![key] =
                     [present |-> TRUE,
                      entries |-> (regionId :> meta) @@ collection.entries]]
            ELSE [ov EXCEPT ![key] =
                     [present |-> TRUE,
                      entries |-> [id \in rest |-> collection.entries[id]]]]

\* The overrides setOverride leaves; meta is FalsyMeta for null.
setOverride(ov, mode, regionId, meta) ==
    IF mode = "empire"
    THEN IF ~Falsy(meta) /\ hasOverrideFields(meta)
         THEN [ov EXCEPT !.empire = meta]
         ELSE [ov EXCEPT !.empire = NoMeta]
    ELSE LET key == getModeKey(mode)
             collection == ov[key]
         IN IF ~Falsy(meta) /\ hasOverrideFields(meta)
            THEN [ov EXCEPT ![key] =
                     [present |-> TRUE,
                      entries |-> (regionId :> meta) @@ collection.entries]]
            ELSE [ov EXCEPT ![key] = TableDelete(collection, regionId)]

\* The edit form: editName, editColor, parentMode, editParentId.
Form(name, color, mode, parentId) ==
    [editName |-> name, editColor |-> color, parentMode |-> mode,
     editParentId |-> parentId]

\* The form syncEditForm leaves.
syncEditForm(ov, mode, regionId) ==
    LET override == getOverride(ov, mode, regionId)
        name == IF override.name.t = "string" THEN override.name.s ELSE ""
        color == IF override.color.t = "string" THEN override.color.s ELSE ""
    IN IF ~Falsy(override) /\ HasParentKey(override)
       THEN IF override.parentId.t = "null"
            THEN Form(name, color, "none", "")
            ELSE Form(name, color, "custom",
                      IF override.parentId.t = "string"
                      THEN override.parentId.s ELSE "")
       ELSE Form(name, color, "default", "")

\* FalsyMeta for null
buildOverrideFromForm(form) ==
    LET name == Trim(form.editName)
        color == Trim(form.editColor)
        parentId == Trim(form.editParentId)
        named == IF name # "" THEN [EmptyMeta EXCEPT !.name = JStr(name)]
                 ELSE EmptyMeta
        colored == IF color # "" THEN [named EXCEPT !.color = JStr(color)]
                   ELSE named
        next == IF form.parentMode = "none"
                THEN [colored EXCEPT !.hasParentKey = TRUE, !.parentId = Null]
                ELSE IF form.parentMode = "custom" /\ parentId # ""
                THEN [colored EXCEPT !.hasParentKey = TRUE,
                                     !.parentId = JStr(parentId)]
                ELSE colored
    IN IF hasOverrideFields(next) THEN next ELSE FalsyMeta

\* The setter of parentSelectValue.
parentSelectValue(form, value) ==
    IF value = "__default"
    THEN Form(form.editName, form.editColor, "default", "")
    ELSE IF value = "__none"
    THEN Form(form.editName, form.editColor, "none", "")
    ELSE Form(form.editName, form.editColor, "custom", value)

\* Variant: a null parentId is dropped (if (meta.parentId) ...).
cleanMeta_DropNullParent(meta) ==
    IF Falsy(meta) THEN FalsyMeta
    ELSE LET name == TrimValue(meta.name)
             color == TrimValue(meta.color)
             named == IF Truthy(name) THEN [EmptyMeta EXCEPT !.name = name]
                      ELSE EmptyMeta
             colored == IF Truthy(color) THEN [named EXCEPT !.color = color]
                        ELSE named
             cleaned == IF HasParentKey(meta) /\ meta.parentId.t = "string"
                        THEN [colored EXCEPT !.hasParentKey = TRUE,
                                             !.parentId = meta.parentId]
                        ELSE colored
         IN IF hasOverrideFields(cleaned) THEN cleaned ELSE FalsyMeta

\* FalsyMeta for null. A truthy entry that is not an object has no name, no
\* color and no own parentId.
cleanMeta(meta) ==
    IF Falsy(meta) THEN FalsyMeta
    ELSE LET name == TrimValue(meta.name)
             color == TrimValue(meta.color)
             named == IF Truthy(name) THEN [EmptyMeta EXCEPT !.name = name]
                      ELSE EmptyMeta
             colored == IF Truthy(color) THEN [named EXCEPT !.color = color]
                        ELSE named
             cleaned == IF HasParentKey(meta)
                        THEN [colored EXCEPT
                                 !.hasParentKey = TRUE,
                                 !.parentId = IF meta.parentId.t = "undefined"
                                              THEN Null ELSE meta.parentId]
                        ELSE colored
         IN IF hasOverrideFields(cleaned) THEN cleaned ELSE FalsyMeta

\* The result is a record even when records is undefined.
collectOverrides(records) ==
    IF ~records.present THEN [present |-> TRUE, entries |-> <<>>]
    ELSE LET kept == {id \in DOMAIN records.entries :
                         ~Falsy(cleanMeta(records.entries[id]))}
         IN [present |-> TRUE,
             entries |-> [id \in kept |-> cleanMeta(records.entries[id])]]

normalizedOverrides(ov) ==
    [counties |-> collectOverrides(ov.counties),
     duchies |-> collectOverrides(ov.duchies),
     kingdoms |-> collectOverrides(ov.kingdoms),
     empire |-> IF Falsy(cleanMeta(ov.empire)) THEN EmptyMeta
                ELSE cleanMeta(ov.empire)]

\* regionInfo
regionInfo(md, mode, regionId, ov) ==
    IF regionId = "" THEN NullInfo ELSE getRegionInfo(md, mode, regionId, ov)

MaxPageEvents == 3

\* The tiles a click selects a region through, and the tile whose parent
\* region the parent select offers: indices into mapData.tiles.
PageTiles == {1, 5}
ParentOptionTiles == {5}

\* Texts typed into the name and color inputs.
NameInputs == {"", " North "}
ColorInputs == {"   ", "oklch(70% 0.2 30) "}

OldMeta == [EmptyMeta EXCEPT !.name = JStr(" Old "),
                             !.color = JStr(" oklch(60% 0.1 200)"),
                             !.hasParentKey = TRUE, !.parentId = Null]
BlankNameMeta == [EmptyMeta EXCEPT !.name = JStr("   ")]
RealmMeta == [EmptyMeta EXCEPT !.name = JStr("Realm")]

\* Contents of regionOverrides.json the page starts from.
PageEntrySets ==
    {{},
     {Entry("county", "c-0-0", OldMeta),
      Entry("kingdom", "k-0-0", BlankNameMeta),
      Entry("empire", EMPIRE_ID, EmptyMeta)},
     {Entry("county", "c-0-0", ParentMeta(JStr("d-0-2"))),
      Entry("duchy", "d-0-0", ParentMeta(Null)),
      Entry("duchy", "d-0-2", PrimitiveMeta),
      Entry("empire", EMPIRE_ID, RealmMeta)},
     {Entry("county", "c-0-0", EmptyMeta),
      Entry("county", "c-0-4", ParentMeta(JStr(""))),
      Entry("kingdom", "k-0-1", ParentMeta(Null))}}

\* The page after setup, and after a mode button: no selection, the form
\* reset by syncEditForm. The edit panel is open (editMode).
InitPage ==
    /\ width = GridWidth
    /\ height = GridHeight
    /\ overrides \in {MkOverrides(S) : S \in PageEntrySets}
    /\ mapData = createWorldMap(GridWidth, GridHeight, overrides)
    /\ pc = "page"
    /\ qMode \in Modes
    /\ qId = ""
    /\ info = NullInfo
    /\ editName = "" /\ editColor = "" /\ parentMode = "default"
    /\ editParentId = ""
    /\ snapshot = normalizedOverrides(overrides)
    /\ freshInfo = NullInfo
    /\ HashIdle /\ ColorIdle /\ ViewIdle

PageReady == pc = "page" /\ event.n < MaxPageEvents

CurrentForm == Form(editName, editColor, parentMode, editParentId)

\* The form and the event a handler leaves; n counts the events.
Handled(form, type) ==
    /\ editName' = form.editName
    /\ editColor' = form.editColor
    /\ parentMode' = form.parentMode
    /\ editParentId' = form.editParentId
    /\ event' = Event(type, <<0, 0>>, 0)
    /\ UNCHANGED <<width, height, pc, freshInfo, hashVars, colorVars>>
    /\ UNCHANGED <<scale, offsetX, offsetY, isDragging, dragStart, dragOrigin,
                   emitted, canvasVars>>

\* The state after a handler that leaves regionOverrides alone: mapData and
\* normalizedOverrides keep their values, regionInfo follows the selection.
Show(mode, regionId, form, type) ==
    /\ qMode' = mode
    /\ qId' = regionId
    /\ info' = regionInfo(mapData, mode, regionId, overrides)
    /\ Handled(form, type)
    /\ UNCHANGED <<overrides, mapData, snapshot>>

\* The state after a handler that wrote regionOverrides: the computed values
\* mapData, regionInfo and normalizedOverrides follow it.
Recompute(ov, form, type) ==
    /\ overrides' = ov
    /\ mapData' = createWorldMap(GridWidth, GridHeight, ov)
    /\ info' = regionInfo(mapData', qMode, qId, ov)
    /\ snapshot' = normalizedOverrides(ov)
    /\ Handled(form, type)
    /\ UNCHANGED <<qMode, qId>>

\* @select="handleSelect", and the watcher that runs syncEditForm when the
\* selection changed.
HandleSelect(regionId) ==
    /\ PageReady
    /\ Show(qMode, regionId,
            IF regionId = qId THEN CurrentForm
            ELSE syncEditForm(overrides, qMode, regionId),
            "select")

\* Variant: no watcher resets the selection when the level changes.
SetMode_KeepSelection(mode) ==
    /\ PageReady
    /\ Show(mode, qId, CurrentForm, "mode")

\* @click="mapMode = mode.value", and the watchers: the selection is reset
\* and syncEditForm runs.
SetMode(mode) ==
    /\ PageReady
    /\ IF mode = qMode
       THEN Show(qMode, qId, CurrentForm, "mode")
       ELSE Show(mode, "", syncEditForm(overrides, mode, ""), "mode")

\* v-model="editName"
EditName(text) ==
    /\ PageReady
    /\ qId # ""
    /\ Show(qMode, qId, [CurrentForm EXCEPT !.editName = text], "name")

\* v-model="editColor"
EditColor(text) ==
    /\ PageReady
    /\ qId # ""
    /\ Show(qMode, qId, [CurrentForm EXCEPT !.editColor = text], "color")

\* v-model="parentSelectValue"; the select is disabled at the empire level.
SelectParent(value) ==
    /\ PageReady
    /\ qId # ""
    /\ getParentMode(qMode) # "null"
    /\ Show(qMode, qId, parentSelectValue(CurrentForm, value), "parent")

\* @click="applyOverride"
applyOverride ==
    /\ PageReady
    /\ qId # ""
    /\ LET ov == setOverride(overrides, qMode, qId,
                             buildOverrideFromForm(CurrentForm))
       IN Recompute(ov, syncEditForm(ov, qMode, qId), "apply")

\* @click="clearOverride"; the button is disabled without an override.
clearOverride ==
    /\ PageReady
    /\ qId # ""
    /\ hasOverrideFields(getOverride(overrides, qMode, qId))
    /\ LET ov == setOverride(overrides, qMode, qId, FalsyMeta)
       IN Recompute(ov, syncEditForm(ov, qMode, qId), "clear")

\* The exported snapshot taken as the overrides of a fresh build, and the
\* selected region queried on it.
Reimport ==
    /\ pc = "page"
    /\ event.type \in {"apply", "clear"}
    /\ freshInfo' = regionInfo(createWorldMap(GridWidth, GridHeight, snapshot),
                               qMode, qId, snapshot)
    /\ pc' = "reimported"
    /\ UNCHANGED <<width, height, overrides, mapData, qMode, qId, info>>
    /\ UNCHANGED <<editName, editColor, parentMode, editParentId, snapshot>>
    /\ UNCHANGED <<hashVars, colorVars, viewVars, canvasVars>>

\* The region ids the map emits on a click at the current level.
SelectableIds == {getRegionId(mapData.tiles[i], qMode) : i \in PageTiles}

\* The values of the parent select: the two fixed options and region ids of
\* the parent level.
ParentSelectValues ==
    {"__default", "__none"}
    \cup {getRegionId(mapData.tiles[i], getParentMode(qMode)) :
             i \in ParentOptionTiles}

NextPage ==
    \/ \E regionId \in SelectableIds : HandleSelect(regionId)
    \/ \E mode \in Modes : SetMode(mode)
    \/ \E text \in NameInputs : EditName(text)
    \/ \E text \in ColorInputs : EditColor(text)
    \/ \E value \in ParentSelectValues : SelectParent(value)
    \/ applyOverride
    \/ clearOverride
    \/ Reimport

SpecPage == InitPage /\ [][NextPage]_vars

----------------------------------------------------------------------------
(* Properties of the page *)

PageState == pc \in {"page", "reimported"}

\* C18: after applyOverride, the region's RegionInfo on a fresh build from
\* the exported snapshot, queried with the snapshot, is the RegionInfo the
\* working overrides give (id, level, tileCount, parentId, name, color).
C18_SnapshotRoundTrip ==
    (pc = "reimported" /\ event.type = "apply") => freshInfo = info

\* County c-0-0, named and colored in regionOverrides.json, detached from
\* its duchy by the form.
C18_Witness ==
    /\ pc = "reimported" /\ event.type = "apply"
    /\ qMode = "county" /\ qId = "c-0-0"
    /\ ~info.isNull /\ info.parentId = Null /\ info.name = JStr("Old")
    /\ getRegionOverride("county", "c-0-0", snapshot).parentId = Null

\* v has a character that trimming keeps.
HasVisibleChar(v) ==
    v.t = "string" /\ \E i \in 1..Len(v.s) : ~IsSpace(CharAt(v.s, i))

\* Non-empty trimmed name, non-empty trimmed color, or an own parentId key.
EntryHasField(meta) ==
    \/ HasVisibleChar(meta.name)
    \/ HasVisibleChar(meta.color)
    \/ (meta.shape = "object" /\ meta.hasParentKey)

TableMetas(table) == {table.entries[id] : id \in DOMAIN table.entries}

LevelEntries(ov) ==
    TableMetas(ov.counties) \cup TableMetas(ov.duchies)
        \cup TableMetas(ov.kingdoms)

EmpireMetas(ov) == IF ov.empire.shape = "undefined" THEN {} ELSE {ov.empire}

\* C19: every entry of the exported snapshot, at the county, duchy, kingdom
\* and empire level, has a non-empty trimmed name, a non-empty trimmed color
\* or an own parentId key.
C19_SnapshotEntriesHaveField ==
    PageState =>
        \A meta \in LevelEntries(snapshot) \cup EmpireMetas(snapshot) :
            EntryHasField(meta)

\* The metas the page applies hasOverrideFields to.
MetasInSight ==
    {NoMeta, FalsyMeta,
     getOverride(overrides, qMode, qId),
     buildOverrideFromForm(CurrentForm),
     overrides.empire, cleanMeta(overrides.empire)}
    \cup LevelEntries(overrides)
    \cup {cleanMeta(meta) : meta \in LevelEntries(overrides)}

\* C20: hasOverrideFields(meta) is true exactly when meta exists and has a
\* name or a color that is non-empty after trimming, or an own parentId key,
\* whatever its value.
C20_PresenceTest ==
    PageState =>
        \A meta \in MetasInSight :
            hasOverrideFields(meta) <=> (~Falsy(meta) /\ EntryHasField(meta))

\* An entry whose only field is parentId: null, written by applyOverride,
\* next to an entry whose name is white space.
C20_Witness ==
    /\ pc = "page" /\ event.type = "apply"
    /\ getOverride(overrides, qMode, qId) = ParentMeta(Null)
    /\ hasOverrideFields(getOverride(overrides, qMode, qId))
    /\ \E meta \in LevelEntries(overrides) :
          meta.name = JStr("   ") /\ ~hasOverrideFields(meta)

\* C21: applyOverride and clearOverride leave for the selected region either
\* an entry that has a field or no entry; applyOverride with an empty name,
\* an empty color and parent mode "default" leaves no entry; and the level
\* table written to is removed when it has no entry left.
C21_WritePrunes ==
    [][(event'.n = event.n + 1 /\ event'.type \in {"apply", "clear"})
          => LET meta == getOverride(overrides', qMode, qId)
             IN /\ meta.shape = "undefined"
                      \/ (~Falsy(meta) /\ EntryHasField(meta))
                /\ (/\ event'.type = "apply"
                    /\ editName = "" /\ editColor = ""
                    /\ parentMode = "default")
                      => meta.shape = "undefined"
                /\ (qMode # "empire" /\ overrides'[getModeKey(qMode)].present)
                      => DOMAIN overrides'[getModeKey(qMode)].entries # {}]_vars

\* applyOverride with the form reset to the default parent removed the only
\* county entry, and with it the county table.
C21_Witness ==
    /\ pc = "page" /\ event.type = "apply"
    /\ qMode = "county" /\ qId = "c-0-0"
    /\ editName = "" /\ editColor = "" /\ parentMode = "default"
    /\ ~overrides.counties.present
    /\ TableGet(overrides.duchies, "d-0-0") = ParentMeta(Null)

-----------------------------------------------------------------------------
(* GridMap: the boundary path of draw *)

\* ctx.moveTo(x1, y1); ctx.lineTo(x2, y2)
Segment(x1, y1, x2, y2) == [x1 |-> x1, y1 |-> y1, x2 |-> x2, y2 |-> y2]

\* regionIds[index], filled by getRegionId(tile, props.mapMode)
RegionIdAt(md, mode, index) == getRegionId(md.tiles[index + 1], mode)

\* Variant: the left neighbour is compared as well.
TileSegments_AlsoLeft(md, mode, index) ==
    LET x == index % md.width
        y == index \div md.width
        regionId == RegionIdAt(md, mode, index)
    IN (IF x + 1 < md.width /\ regionId # RegionIdAt(md, mode, index + 1)
        THEN <<Segment((x + 1) * TileSize, y * TileSize,
                       (x + 1) * TileSize, (y + 1) * TileSize)>>
        ELSE <<>>)
       \o (IF x > 0 /\ regionId # RegionIdAt(md, mode, index - 1)
           THEN <<Segment(x * TileSize, y * TileSize,
                          x * TileSize, (y + 1) * TileSize)>>
           ELSE <<>>)
       \o (IF y + 1 < md.height
              /\ regionId # RegionIdAt(md, mode, index + md.width)
           THEN <<Segment(x * TileSize, (y + 1) * TileSize,
                          (x + 1) * TileSize, (y + 1) * TileSize)>>
           ELSE <<>>)

\* The body of the boundary loop for the tile at index = y * width + x: the
\* segments it adds to the path, the right one before the bottom one.
TileSegments(md, mode, index) ==
    LET x == index % md.width
        y == index \div md.width
        regionId == RegionIdAt(md, mode, index)
    IN (IF x + 1 < md.width /\ regionId # RegionIdAt(md, mode, index + 1)
        THEN <<Segment((x + 1) * TileSize, y * TileSize,
                       (x + 1) * TileSize, (y + 1) * TileSize)>>
        ELSE <<>>)
       \o (IF y + 1 < md.height
              /\ regionId # RegionIdAt(md, mode, index + md.width)
           THEN <<Segment(x * TileSize, (y + 1) * TileSize,
                          (x + 1) * TileSize, (y + 1) * TileSize)>>
           ELSE <<>>)

\* for y, for x: the tiles are visited in the order of index.
RECURSIVE BoundaryLoop(_, _, _, _)
BoundaryLoop(md, mode, index, path) ==
    IF index >= md.width * md.height THEN path
    ELSE BoundaryLoop(md, mode, index + 1,
                      path \o TileSegments(md, mode, index))

\* The path draw strokes between ctx.beginPath() and ctx.stroke().
drawBoundary(md, mode) == BoundaryLoop(md, mode, 0, <<>>)

\* draw() with props.mapMode = mode, on a mounted canvas of nonzero size.
Draw(mode) ==
    /\ pc = "built"
    /\ ~mapData.threw
    /\ qMode' = mode
    /\ boundary' = drawBoundary(mapData, mode)
    /\ pc' = "drawn"
    /\ UNCHANGED <<width, height, overrides, mapData, qId, info>>
    /\ UNCHANGED <<hashVars, colorVars, viewVars, capture, dragWorld, pageVars>>

NextDraw ==
    \/ Build
    \/ \E mode \in Modes : Draw(mode)

SpecDraw == Init /\ [][NextDraw]_vars

\* The pairs of tiles next to each other inside the grid, the left or upper
\* tile first.
AdjacentPairs(md) ==
    {pair \in Range(md.tiles) \X Range(md.tiles) :
        \/ pair[2].x = pair[1].x + 1 /\ pair[2].y = pair[1].y
        \/ pair[2].x = pair[1].x /\ pair[2].y = pair[1].y + 1}

Least(a, b) == IF a < b THEN a ELSE b
Greatest(a, b) == IF a < b THEN b ELSE a

\* The edge two tiles share: the intersection of their squares.
SharedEdge(a, b) ==
    Segment(Greatest(a.x, b.x) * TileSize, Greatest(a.y, b.y) * TileSize,
            Least(a.x + 1, b.x + 1) * TileSize,
            Least(a.y + 1, b.y + 1) * TileSize)

DifferingPairs(md, mode) ==
    {pair \in AdjacentPairs(md) :
        getRegionId(pair[1], mode) # getRegionId(pair[2], mode)}

\* C22: the boundary path of one redraw holds no segment twice, and its
\* segments are exactly the shared edges of the adjacent tile pairs inside the
\* grid whose region ids at the drawn level differ, one segment for each such
\* pair; at empire level the path is empty.
C22_BoundaryIsDifferingSharedEdges ==
    pc = "drawn"
        => /\ NoDuplicates(boundary)
           /\ Range(boundary)
                 = {SharedEdge(pair[1], pair[2]) :
                       pair \in DifferingPairs(mapData, qMode)}
           /\ Len(boundary) = Cardinality(DifferingPairs(mapData, qMode))
           /\ qMode = "empire" => boundary = <<>>

\* A duchy-level redraw of a 5 x 2 grid that strokes the edge between the
\* second and third column and leaves out the edge between the first two.
C22_Witness ==
    /\ pc = "drawn" /\ qMode = "duchy"
    /\ width = 5 /\ height = 2
    /\ \E i \in 1..Len(boundary) : boundary[i] = Segment(40, 0, 40, 20)
    /\ \A i \in 1..Len(boundary) : boundary[i] # Segment(20, 0, 20, 20)
    /\ AdjacentPairs(mapData) # DifferingPairs(mapData, qMode)

-----------------------------------------------------------------------------
(* GridMap: the life of a drag *)

\* C23: after every pointerup and every pointerleave the dragging flag is
\* false and the canvas no longer holds the capture of the event's pointer;
\* the flag becomes true by a pointerdown only, which takes the capture of its
\* pointer; and a pointermove that finds the flag false changes neither the
\* offset nor the scale. So between a pointerup or pointerleave and the next
\* pointerdown no pointermove moves the map.
C23_DragEndsAtUpOrLeave ==
    [][event'.n = event.n + 1
          => /\ (event'.type \in {"pointerup", "pointerleave"})
                   => /\ ~isDragging'
                      /\ event'.pointerId \notin capture'
                      /\ capture' = capture \ {event'.pointerId}
             /\ (isDragging' /\ ~isDragging)
                   => /\ event'.type = "pointerdown"
                      /\ event'.pointerId \in capture'
             /\ (event'.type # "pointerdown")
                   => capture' \subseteq capture
             /\ (event'.type = "pointermove" /\ ~isDragging)
                   => UNCHANGED <<scale, offsetX, offsetY, isDragging>>]_vars

\* A pointerdown at (15, 5), a pointerleave, then a pointermove to (180, 45)
\* that leaves the offset where the pointerdown found it.
C23_Witness ==
    /\ pc = "view" /\ event.type = "pointermove" /\ event.n = 3
    /\ event.x = 180 /\ event.y = 45
    /\ dragStart = [x |-> 15, y |-> 5]
    /\ ~isDragging /\ capture = {}
    /\ offsetX = dragOrigin.x /\ offsetY = dragOrigin.y

\* C25: after every pointermove of a drag the world point under the pointer
\* is the world point that was under the pointer at the pointerdown of the
\* drag, whatever wheel events came in between.
C25_DragKeepsGrabbedPoint ==
    [][(event'.n = event.n + 1 /\ event'.type = "pointermove" /\ isDragging)
          => UnderPointer(View(scale', offsetX', offsetY'), event')
                = dragWorld]_vars

-----------------------------------------------------------------------------
(* getRegionInfo against the built map *)

\* The id of the region that holds region regionId of the mode in md:
\* county.duchyId, duchy.kingdomId, kingdom.empireId.
MapParentId(md, mode, regionId) ==
    LET r == TableOf(md, mode).val[regionId]
    IN CASE mode = "county" -> r.duchyId
         [] mode = "duchy" -> r.kingdomId
         [] mode = "kingdom" -> r.empireId

\* C24: for every county, duchy and kingdom of the built map, the parentId
\* getRegionInfo reports with the same overrides is the id of the parent the
\* map gives the region.
C24_InfoParentIsMapParent ==
    (/\ pc = "queried"
     /\ qMode \in {"county", "duchy", "kingdom"}
     /\ IsRegion(qMode, qId))
        => /\ ~info.isNull /\ ~info.threw
           /\ info.parentId = JStr(MapParentId(mapData, qMode, qId))

\* C26: in every state of the page the selected region id is null or the id
\* of a region of the current world map at the current level, and every step
\* that changes the level leaves the selection null and regionInfo null.
C26_SelectionIsNullOrRegion ==
    /\ [](PageState => (qId = "" \/ IsRegion(qMode, qId)))
    /\ [][qMode' # qMode => (qId' = "" /\ info' = NullInfo)]_vars

\* County c-0-0 stays selected after applyOverride has moved it to the duchy
\* of another tile and the world map has been rebuilt.
C26_Witness ==
    /\ pc = "page" /\ event.type = "apply"
    /\ qMode = "county" /\ qId = "c-0-0"
    /\ mapData.counties.val["c-0-0"].duchyId = "d-0-2"
    /\ ~info.isNull /\ info.parentId = JStr("d-0-2")

-----------------------------------------------------------------------------
(* The kingdom of a duchy *)

\* The id the grid gives the duchy of block row i, block column j, and the
\* id of the kingdom whose block holds that duchy block.
NaturalDuchyId(i, j) == "d-" \o DecimalString(i) \o "-" \o DecimalString(j)
NaturalKingdomOf(i, j) ==
    "k-" \o DecimalString(i \div (KINGDOM_SIZE \div DUCHY_SIZE)) \o "-"
         \o DecimalString(j \div (KINGDOM_SIZE \div DUCHY_SIZE))

\* C27: in a map built with no duchy overrides, every duchy whose id is a
\* natural id d-i-j belongs to the kingdom k-floor(i/2)-floor(j/2), whatever
\* the county overrides are.
C27_DuchyKingdomFromIdAlone ==
    (Built /\ ~overrides.duchies.present)
        => \A i \in 0..MaxIndexKey : \A j \in 0..MaxIndexKey :
              NaturalDuchyId(i, j) \in DuchyKeys
                 => mapData.duchies.val[NaturalDuchyId(i, j)].kingdomId
                       = NaturalKingdomOf(i, j)

====
